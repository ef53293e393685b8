------------------------ MODULE FLASH_Queue_proofs -------------------------
(***************************************************************************)
(* Proofs about the analyser of SuperMatrix (module FLASH_Queue), for any  *)
(* set of blocks, any operations and any number of tasks: its types are    *)
(* right, no block remembers a task between regions, and the dependence    *)
(* lists order every two tasks that conflict.                              *)
(*                                                                         *)
(* ConflictsOrdered is not inductive: it speaks of the tasks in the queue, *)
(* while the edges of a task are made before it gets there, one block at a *)
(* time, from what its blocks remember.  The invariant below says what     *)
(* they remember, for the arguments that have been analysed so far.        *)
(***************************************************************************)
EXTENDS FLASH_Queue, FiniteSetTheorems, FunctionTheorems, SequenceTheorems, TLAPS

(* Task i has had block b analysed as an input, as an output.              *)
HasRead(i, b) ==
  \/ i \in 1..n_tasks /\ b \in Reads(i)
  \/ pushing /\ i = cur /\ \E m \in 1..i_in : op[cur].in[m] = b

HasWritten(i, b) ==
  \/ i \in 1..n_tasks /\ b \in Writes(i)
  \/ pushing /\ i = cur /\ \E m \in 1..i_out : op[cur].out[m] = b

(* Tasks exist only inside a region of an initialised, enabled queue, and  *)
(* inputs are analysed before outputs.                                     *)
InRegion ==
  /\ n_tasks > 0 \/ pushing => initialized /\ enabled /\ stack > 0
  /\ stack > 0 => initialized
  /\ ~pushing => i_in = 0 /\ i_out = 0
  /\ pushing /\ i_out > 0 => i_in = Len(op[cur].in)

(* A block remembers its last writer.                                      *)
LastWriter ==
  \A b \in Block :
    \A i \in Task : /\ write_task[b] = i => HasWritten(i, b)
                    /\ HasWritten(i, b) => i <= write_task[b]

InReaders(i, b) == \E m \in 1..Len(read_task[b]) : read_task[b][m] = i

(* A block remembers the tasks that have read it since its last write, and *)
(* no task that has not read it.                                           *)
ReadersSince ==
  \A b \in Block : \A i \in Task :
    /\ HasRead(i, b) /\ i > write_task[b] => InReaders(i, b)
    /\ InReaders(i, b) => HasRead(i, b)

(* Every execution that has started j has started i.                       *)
Before(i, j) == \A S \in SUBSET Task : Closed(S) /\ j \in S => i \in S

(* The accesses of tasks i and j to block b conflict.                      *)
Clash(i, j, b) ==
  \/ HasWritten(i, b) /\ (HasRead(j, b) \/ HasWritten(j, b))
  \/ HasRead(i, b) /\ HasWritten(j, b)

ClashesOrdered ==
  \A i, j \in Task : \A b \in Block : i < j /\ Clash(i, j, b) => Before(i, j)

Typed == TypeOK /\ InRegion

-----------------------------------------------------------------------------
(* The nodes of a block's list of readers are finitely many, and a task's  *)
(* share of them is empty only if the task is not in the list.             *)
LEMMA ReaderNodesFinite ==
  ASSUME TypeOK, NEW b \in Block
  PROVE  /\ Cardinality(ReadNodes(b)) \in Nat
         /\ \A i \in Task :
              /\ Cardinality(ReadNodesOf(b, i)) \in Nat
              /\ ReadNodesOf(b, i) # {} => Cardinality(ReadNodesOf(b, i)) >= 1
<1>1. Len(read_task[b]) \in Int
  BY DEF TypeOK
<1>2. IsFiniteSet(1..Len(read_task[b]))
  BY <1>1, FS_Interval
<1>3. ReadNodes(b) \in SUBSET (1..Len(read_task[b]))
  BY DEF ReadNodes
<1>4. Cardinality(ReadNodes(b)) \in Nat
  BY <1>2, <1>3, FS_Subset, FS_CardinalityType
<1>5. ASSUME NEW i \in Task
      PROVE  /\ Cardinality(ReadNodesOf(b, i)) \in Nat
             /\ ReadNodesOf(b, i) # {} => Cardinality(ReadNodesOf(b, i)) >= 1
  <2>1. ReadNodesOf(b, i) \in SUBSET (1..Len(read_task[b]))
    BY <1>3 DEF ReadNodesOf
  <2>2. IsFiniteSet(ReadNodesOf(b, i))
    BY <1>2, <2>1, FS_Subset
  <2>3. Cardinality(ReadNodesOf(b, i)) \in Nat
    BY <2>2, FS_CardinalityType
  <2>4. ReadNodesOf(b, i) # {} => Cardinality(ReadNodesOf(b, i)) # 0
    BY <2>2, FS_EmptySet
  <2> QED
    BY <2>3, <2>4
<1> QED
  BY <1>4, <1>5

(* The block analysed next, and the dependence lists once the flow         *)
(* dependence of an output block is added.                                 *)
InBlock == op[cur].in[i_in + 1]
OutBlock == op[cur].out[i_out + 1]
Flow == IF write_task[OutBlock] \in {NULL, cur} THEN dep_arg
        ELSE [dep_arg EXCEPT ![write_task[OutBlock]] = Append(@, cur)]

(* The effects of the analysis of an input and of an output block.         *)
LEMMA InputEffect ==
  ASSUME FLASH_Queue_push_input
  PROVE  /\ pushing /\ i_in < Len(op[cur].in) /\ i_in' = i_in + 1
         /\ dep_arg' = IF write_task[InBlock] = NULL THEN dep_arg
                       ELSE [dep_arg EXCEPT ![write_task[InBlock]] = Append(@, cur)]
         /\ n_ready' = IF write_task[InBlock] = NULL THEN [n_ready EXCEPT ![cur] = @ - 1]
                                               ELSE n_ready
         /\ read_id' = IF Untouched(InBlock) THEN [read_id EXCEPT ![InBlock] = n_read_blocks]
                                       ELSE read_id
         /\ n_read_blocks' = IF Untouched(InBlock) THEN n_read_blocks + 1 ELSE n_read_blocks
         /\ read_task' = IF read_task[InBlock] = <<>> \/ read_task[InBlock][Len(read_task[InBlock])] # cur
                         THEN [read_task EXCEPT ![InBlock] = Append(@, cur)] ELSE read_task
         /\ UNCHANGED <<apiVars, n_tasks, op, n_macro_args, n_war_args, queue,
                        write_task, write_id, n_write_blocks, pushing, i_out>>
  BY Zenon DEF FLASH_Queue_push_input, InBlock

LEMMA OutputEffect ==
  ASSUME FLASH_Queue_push_output
  PROVE  /\ pushing /\ i_in = Len(op[cur].in) /\ i_out < Len(op[cur].out)
         /\ i_out' = i_out + 1
         /\ queue' = IF i_out = 0
                     THEN [queue EXCEPT ![cur] = IF write_task[OutBlock] = NULL
                                                 THEN n_write_blocks
                                                 ELSE queue[write_task[OutBlock]]]
                     ELSE queue
         /\ n_ready' = IF NoWriterBefore(write_task[OutBlock]) THEN [n_ready EXCEPT ![cur] = @ - 1]
                                                        ELSE n_ready
         /\ write_id' = IF write_task[OutBlock] = NULL THEN [write_id EXCEPT ![OutBlock] = n_write_blocks]
                                                ELSE write_id
         /\ n_write_blocks' = IF write_task[OutBlock] = NULL THEN n_write_blocks + 1
                                                      ELSE n_write_blocks
         /\ read_id' = IF Untouched(OutBlock) THEN [read_id EXCEPT ![OutBlock] = n_read_blocks]
                                       ELSE read_id
         /\ n_read_blocks' = IF Untouched(OutBlock) THEN n_read_blocks + 1 ELSE n_read_blocks
         /\ dep_arg' = [i \in Task |->
                Flow[i] \o [k \in 1..Cardinality(ReadNodesOf(OutBlock, i)) |-> cur]]
         /\ n_war_args' = [n_war_args EXCEPT ![cur] = @ + Cardinality(ReadNodes(OutBlock))]
         /\ read_task' = [read_task EXCEPT ![OutBlock] = <<>>]
         /\ write_task' = [write_task EXCEPT ![OutBlock] = cur]
         /\ UNCHANGED <<apiVars, n_tasks, op, n_macro_args, pushing, i_in>>
  BY Zenon DEF FLASH_Queue_push_output, OutBlock, Flow

(* The block analysed next, and what is known of it.                       *)
LEMMA InputBlock ==
  ASSUME TypeOK, FLASH_Queue_push_input
  PROVE  /\ cur \in Task /\ op[cur] \in OpType
         /\ i_in + 1 \in 1..Len(op[cur].in)
         /\ InBlock \in Block
<1>g. pushing /\ i_in < Len(op[cur].in)
  BY Zenon DEF FLASH_Queue_push_input
<1>1. cur \in Task
  BY <1>g, BoundsAssumption DEF TypeOK, cur, Task
<1>2. op[cur] \in OpType
  BY <1>1 DEF TypeOK
<1>3. op[cur].in \in Seq(Block)
  BY <1>2 DEF OpType
<1>4. i_in + 1 \in 1..Len(op[cur].in)
  BY <1>3, <1>g DEF TypeOK
<1> QED
  BY <1>1, <1>2, <1>3, <1>4 DEF InBlock

LEMMA OutputBlock ==
  ASSUME TypeOK, FLASH_Queue_push_output
  PROVE  /\ cur \in Task /\ op[cur] \in OpType
         /\ i_out + 1 \in 1..Len(op[cur].out)
         /\ OutBlock \in Block
<1>g. pushing /\ i_in = Len(op[cur].in) /\ i_out < Len(op[cur].out)
  BY Zenon DEF FLASH_Queue_push_output
<1>1. cur \in Task
  BY <1>g, BoundsAssumption DEF TypeOK, cur, Task
<1>2. op[cur] \in OpType
  BY <1>1 DEF TypeOK
<1>3. op[cur].out \in Seq(Block)
  BY <1>2 DEF OpType
<1>4. i_out + 1 \in 1..Len(op[cur].out)
  BY <1>3, <1>g DEF TypeOK
<1> QED
  BY <1>1, <1>2, <1>3, <1>4 DEF OutBlock

-----------------------------------------------------------------------------
(* Types.                                                                  *)

LEMMA NoOpType == NoOp \in OpType
<1>1. <<>> \in Seq(Block)
  OBVIOUS
<1> QED
  BY <1>1 DEF NoOp, OpType

LEMMA TypedInit == Init => Typed
<1> SUFFICES ASSUME Init PROVE Typed
  OBVIOUS
<1>1. op \in [Task -> OpType]
  BY NoOpType DEF Init
<1>2. /\ dep_arg \in [Task -> Seq(Task)] /\ read_task \in [Block -> Seq(Task)]
      /\ write_task \in [Block -> Task \cup {NULL}]
  BY DEF Init
<1>3. stack \in 0..MaxStack /\ n_tasks \in 0..MaxTasks
  BY BoundsAssumption DEF Init
<1>4. /\ n_ready \in [Task -> Int] /\ queue \in [Task -> Nat]
      /\ n_macro_args \in [Task -> Nat] /\ n_war_args \in [Task -> Nat]
      /\ read_id \in [Block -> Nat] /\ write_id \in [Block -> Nat]
      /\ n_read_blocks \in Nat /\ n_write_blocks \in Nat
      /\ i_in \in Nat /\ i_out \in Nat
  BY DEF Init
<1>5. initialized \in BOOLEAN /\ enabled \in BOOLEAN /\ pushing = FALSE
  BY Zenon DEF Init
<1>6. TypeOK
  BY <1>1, <1>2, <1>3, <1>4, <1>5, Zenon DEF TypeOK
<1>7. InRegion
  BY DEF Init, InRegion
<1> QED
  BY <1>6, <1>7 DEF Typed

LEMMA TypedInput ==
  ASSUME Typed, FLASH_Queue_push_input
  PROVE  Typed'
<1> USE DEF Typed
<1>1. cur \in Task /\ InBlock \in Block /\ i_in + 1 \in 1..Len(op[cur].in)
  BY InputBlock
<1>e. /\ pushing /\ i_in < Len(op[cur].in) /\ i_in' = i_in + 1
      /\ UNCHANGED <<apiVars, n_tasks, op, n_macro_args, n_war_args, queue,
                     write_task, write_id, n_write_blocks, pushing, i_out>>
  BY InputEffect
<1>2. dep_arg' \in [Task -> Seq(Task)]
  <2>1. dep_arg' = IF write_task[InBlock] = NULL THEN dep_arg
                   ELSE [dep_arg EXCEPT ![write_task[InBlock]] = Append(@, cur)]
    BY InputEffect
  <2> QED
    BY <1>1, <2>1 DEF TypeOK
<1>3. n_ready' \in [Task -> Int]
  <2>1. n_ready' = IF write_task[InBlock] = NULL THEN [n_ready EXCEPT ![cur] = @ - 1]
                                           ELSE n_ready
    BY InputEffect
  <2> QED
    BY <1>1, <2>1 DEF TypeOK
<1>4. read_task' \in [Block -> Seq(Task)]
  <2>1. read_task' = IF read_task[InBlock] = <<>> \/ read_task[InBlock][Len(read_task[InBlock])] # cur
                     THEN [read_task EXCEPT ![InBlock] = Append(@, cur)] ELSE read_task
    BY InputEffect
  <2> QED
    BY <1>1, <2>1 DEF TypeOK
<1>5. read_id' \in [Block -> Nat] /\ n_read_blocks' \in Nat
  <2>1. /\ read_id' = IF Untouched(InBlock) THEN [read_id EXCEPT ![InBlock] = n_read_blocks]
                                      ELSE read_id
        /\ n_read_blocks' = IF Untouched(InBlock) THEN n_read_blocks + 1 ELSE n_read_blocks
    BY InputEffect
  <2> QED
    BY <1>1, <2>1 DEF TypeOK
<1>6. cur' = cur /\ i_in' \in Nat /\ i_in' <= Len(op[cur].in)
  BY <1>1, <1>e DEF TypeOK, cur
<1>7. TypeOK'
  BY <1>2, <1>3, <1>4, <1>5, <1>6, <1>e DEF TypeOK, apiVars
<1>8. InRegion'
  BY <1>6, <1>e DEF InRegion, apiVars, TypeOK
<1> QED
  BY <1>7, <1>8

(* A sequence with n copies of x behind it.                                *)
LEMMA AppendCopies ==
  ASSUME NEW S, NEW s \in Seq(S), NEW n \in Nat, NEW x \in S
  PROVE  LET u == s \o [k \in 1..n |-> x]
         IN  /\ u \in Seq(S)
             /\ Len(s) <= Len(u) /\ Len(u) = Len(s) + n
             /\ \A m \in 1..Len(s) : u[m] = s[m]
             /\ \A m \in (Len(s) + 1)..(Len(s) + n) : u[m] = x
             /\ n >= 1 => Len(s) + 1 \in 1..Len(u) /\ u[Len(s) + 1] = x
<1> DEFINE c == [k \in 1..n |-> x]
<1>1. c \in Seq(S) /\ Len(c) = n /\ \A k \in 1..n : c[k] = x
  OBVIOUS
<1> HIDE DEF c
<1>2. /\ s \o c \in Seq(S)
      /\ Len(s \o c) = Len(s) + n
      /\ \A i \in 1..Len(s) + n : (s \o c)[i] = IF i <= Len(s) THEN s[i] ELSE c[i - Len(s)]
  BY <1>1, ConcatProperties
<1>3. Len(s) \in Nat
  OBVIOUS
<1>4. \A m \in 1..Len(s) : (s \o c)[m] = s[m]
  BY <1>2, <1>3
<1>5. n >= 1 => (s \o c)[Len(s) + 1] = x
  BY <1>1, <1>2, <1>3
<1>7. ASSUME NEW m \in (Len(s) + 1)..(Len(s) + n) PROVE (s \o c)[m] = x
  <2>1. m \in 1..(Len(s) + n) /\ ~(m <= Len(s)) /\ m - Len(s) \in 1..n
    BY <1>3
  <2> QED
    BY <1>1, <1>2, <2>1
<1>6. /\ s \o c \in Seq(S)
      /\ Len(s) <= Len(s \o c) /\ Len(s \o c) = Len(s) + n
      /\ \A m \in 1..Len(s) : (s \o c)[m] = s[m]
      /\ \A m \in (Len(s) + 1)..(Len(s) + n) : (s \o c)[m] = x
      /\ n >= 1 => Len(s) + 1 \in 1..Len(s \o c) /\ (s \o c)[Len(s) + 1] = x
  BY <1>2, <1>3, <1>4, <1>5, <1>7
<1> QED
  BY <1>6 DEF c

(* The analysis of an output block adds edges to the current task: from    *)
(* the last writer of the block and from every reader since.               *)
LEMMA OutputEdges ==
  ASSUME TypeOK, FLASH_Queue_push_output
  PROVE  /\ dep_arg' \in [Task -> Seq(Task)]
         /\ \A i \in Task :
              /\ Len(dep_arg[i]) <= Len(dep_arg'[i])
              /\ \A m \in 1..Len(dep_arg[i]) : dep_arg'[i][m] = dep_arg[i][m]
              /\ (i = write_task[OutBlock] /\ i # cur) \/ ReadNodesOf(OutBlock, i) # {} =>
                   \E m \in 1..Len(dep_arg'[i]) : dep_arg'[i][m] = cur
<1>1. OutBlock \in Block /\ cur \in Task
  BY OutputBlock
<1>2. dep_arg \in [Task -> Seq(Task)] /\ write_task[OutBlock] \in Task \cup {NULL}
  BY <1>1 DEF TypeOK
<1>3. Flow \in [Task -> Seq(Task)]
  BY <1>1, <1>2 DEF Flow
<1>4. dep_arg' = [i \in Task |->
         Flow[i] \o [k \in 1..Cardinality(ReadNodesOf(OutBlock, i)) |-> cur]]
  BY OutputEffect
<1>5. ASSUME NEW i \in Task
      PROVE  /\ dep_arg'[i] \in Seq(Task)
             /\ Len(dep_arg[i]) <= Len(dep_arg'[i])
             /\ \A m \in 1..Len(dep_arg[i]) : dep_arg'[i][m] = dep_arg[i][m]
             /\ (i = write_task[OutBlock] /\ i # cur) \/ ReadNodesOf(OutBlock, i) # {} =>
                  \E m \in 1..Len(dep_arg'[i]) : dep_arg'[i][m] = cur
  <2> DEFINE n == Cardinality(ReadNodesOf(OutBlock, i))
  <2>1. n \in Nat /\ (ReadNodesOf(OutBlock, i) # {} => n >= 1)
    BY <1>1, ReaderNodesFinite
  <2> HIDE DEF n
  <2>2. dep_arg'[i] = Flow[i] \o [k \in 1..n |-> cur]
    BY <1>4 DEF n
  <2>3. Flow[i] \in Seq(Task) /\ Len(Flow[i]) \in Nat
    BY <1>3
  <2>4. /\ dep_arg'[i] \in Seq(Task)
        /\ Len(Flow[i]) <= Len(dep_arg'[i])
        /\ \A m \in 1..Len(Flow[i]) : dep_arg'[i][m] = Flow[i][m]
        /\ n >= 1 => /\ Len(Flow[i]) + 1 \in 1..Len(dep_arg'[i])
                     /\ dep_arg'[i][Len(Flow[i]) + 1] = cur
    BY <1>1, <2>1, <2>2, <2>3, AppendCopies
  <2>5. dep_arg[i] \in Seq(Task) /\ Len(dep_arg[i]) \in Nat
    BY <1>2
  <2>6. /\ Len(dep_arg[i]) <= Len(Flow[i])
        /\ \A m \in 1..Len(dep_arg[i]) : Flow[i][m] = dep_arg[i][m]
    BY <1>1, <1>2, <2>5 DEF Flow
  <2>7. i = write_task[OutBlock] /\ i # cur =>
          Len(Flow[i]) \in 1..Len(Flow[i]) /\ Flow[i][Len(Flow[i])] = cur
    <3>1. i # NULL
      BY DEF Task, NULL
    <3> QED
      BY <1>1, <1>2, <2>5, <3>1 DEF Flow
  <2>8. Len(dep_arg'[i]) \in Nat
    BY <2>4
  <2>9. /\ Len(dep_arg[i]) <= Len(dep_arg'[i])
        /\ \A m \in 1..Len(dep_arg[i]) : dep_arg'[i][m] = dep_arg[i][m]
    BY <2>3, <2>4, <2>5, <2>6, <2>8
  <2>10. i = write_task[OutBlock] /\ i # cur =>
           \E m \in 1..Len(dep_arg'[i]) : dep_arg'[i][m] = cur
    BY <2>3, <2>4, <2>7, <2>8
  <2>11. ReadNodesOf(OutBlock, i) # {} =>
           \E m \in 1..Len(dep_arg'[i]) : dep_arg'[i][m] = cur
    BY <2>1, <2>4
  <2> QED
    BY <2>4, <2>9, <2>10, <2>11
<1>6. dep_arg' \in [Task -> Seq(Task)]
  BY <1>4, <1>5
<1> QED
  BY <1>5, <1>6

LEMMA TypedOutput ==
  ASSUME Typed, FLASH_Queue_push_output
  PROVE  Typed'
<1> USE DEF Typed
<1>1. cur \in Task /\ OutBlock \in Block /\ i_out + 1 \in 1..Len(op[cur].out)
  BY OutputBlock
<1>e. /\ pushing /\ i_in = Len(op[cur].in) /\ i_out' = i_out + 1
      /\ UNCHANGED <<apiVars, n_tasks, op, n_macro_args, pushing, i_in>>
  BY OutputEffect
<1>2. write_task[OutBlock] \in Task \cup {NULL}
  BY <1>1 DEF TypeOK
<1>3. queue' \in [Task -> Nat]
  <2>1. queue' = IF i_out = 0
                 THEN [queue EXCEPT ![cur] = IF write_task[OutBlock] = NULL
                                             THEN n_write_blocks
                                             ELSE queue[write_task[OutBlock]]]
                 ELSE queue
    BY OutputEffect
  <2> QED
    BY <1>1, <1>2, <2>1 DEF TypeOK
<1>4. n_ready' \in [Task -> Int]
  <2>1. n_ready' = IF NoWriterBefore(write_task[OutBlock])
                   THEN [n_ready EXCEPT ![cur] = @ - 1] ELSE n_ready
    BY OutputEffect
  <2> QED
    BY <1>1, <2>1 DEF TypeOK
<1>5. write_id' \in [Block -> Nat] /\ n_write_blocks' \in Nat
  <2>1. /\ write_id' = IF write_task[OutBlock] = NULL
                       THEN [write_id EXCEPT ![OutBlock] = n_write_blocks] ELSE write_id
        /\ n_write_blocks' = IF write_task[OutBlock] = NULL THEN n_write_blocks + 1
                                                            ELSE n_write_blocks
    BY OutputEffect
  <2> QED
    BY <1>1, <2>1 DEF TypeOK
<1>6. read_id' \in [Block -> Nat] /\ n_read_blocks' \in Nat
  <2>1. /\ read_id' = IF Untouched(OutBlock)
                      THEN [read_id EXCEPT ![OutBlock] = n_read_blocks] ELSE read_id
        /\ n_read_blocks' = IF Untouched(OutBlock) THEN n_read_blocks + 1
                                                   ELSE n_read_blocks
    BY OutputEffect
  <2> QED
    BY <1>1, <2>1 DEF TypeOK
<1>7. dep_arg' \in [Task -> Seq(Task)]
  BY OutputEdges
<1>8. n_war_args' \in [Task -> Nat]
  <2>1. n_war_args' = [n_war_args EXCEPT ![cur] = @ + Cardinality(ReadNodes(OutBlock))]
    BY OutputEffect
  <2>2. Cardinality(ReadNodes(OutBlock)) \in Nat
    BY <1>1, ReaderNodesFinite
  <2> QED
    BY <1>1, <2>1, <2>2 DEF TypeOK
<1>9. read_task' \in [Block -> Seq(Task)] /\ write_task' \in [Block -> Task \cup {NULL}]
  <2>1. /\ read_task' = [read_task EXCEPT ![OutBlock] = <<>>]
        /\ write_task' = [write_task EXCEPT ![OutBlock] = cur]
    BY OutputEffect
  <2> QED
    BY <1>1, <2>1 DEF TypeOK
<1>10. cur' = cur /\ i_out' \in Nat /\ i_out' <= Len(op[cur].out)
  BY <1>1, <1>e DEF TypeOK, cur
<1>11. TypeOK'
  BY <1>3, <1>4, <1>5, <1>6, <1>7, <1>8, <1>9, <1>10, <1>e DEF TypeOK, apiVars
<1>12. InRegion'
  BY <1>10, <1>e DEF InRegion, apiVars, TypeOK
<1> QED
  BY <1>11, <1>12

LEMMA TypedAlloc ==
  ASSUME Typed, NEW o \in Op, FLASH_Task_alloc(o)
  PROVE  Typed'
<1> USE DEF Typed
<1>e. /\ initialized /\ enabled /\ stack > 0 /\ n_tasks < MaxTasks
      /\ pushing' = TRUE /\ i_in' = 0 /\ i_out' = 0
      /\ op' = [op EXCEPT ![cur] = o]
      /\ n_macro_args' = [n_macro_args EXCEPT ![cur] = ExtraBlocks(o)]
      /\ UNCHANGED <<apiVars, n_tasks, n_ready, n_war_args, dep_arg, queue, blockVars>>
  BY DEF FLASH_Task_alloc
<1>1. cur \in Task /\ cur' = cur
  BY <1>e, BoundsAssumption DEF TypeOK, cur, Task
<1>2. /\ o \in OpType /\ o.in \in Seq(Block) /\ o.out \in Seq(Block)
      /\ o.n_in \in Nat /\ o.n_out \in Nat /\ o.n_in <= Len(o.in) /\ o.n_out <= Len(o.out)
  BY OpAssumption DEF OpType
<1>3. op' \in [Task -> OpType] /\ op'[cur] = o
  BY <1>1, <1>2, <1>e DEF TypeOK
<1>4. n_macro_args' \in [Task -> Nat]
  <2>1. ExtraBlocks(o) \in Nat
    BY <1>2 DEF ExtraBlocks
  <2> QED
    BY <1>1, <1>e, <2>1 DEF TypeOK
<1>5. i_in' <= Len(op'[cur'].in) /\ i_out' <= Len(op'[cur'].out)
  BY <1>1, <1>2, <1>3, <1>e
<1>6. TypeOK'
  BY <1>3, <1>4, <1>5, <1>e DEF TypeOK, apiVars, blockVars
<1>7. InRegion'
  BY <1>e DEF InRegion, apiVars
<1> QED
  BY <1>6, <1>7

LEMMA TypedTail ==
  ASSUME Typed, FLASH_Queue_push_tail
  PROVE  Typed'
<1> USE DEF Typed
<1>1. n_tasks' \in 0..MaxTasks
  BY BoundsAssumption DEF FLASH_Queue_push_tail, TypeOK
<1>2. TypeOK'
  BY <1>1 DEF FLASH_Queue_push_tail, TypeOK, apiVars, taskVars, blockVars
<1>3. InRegion'
  BY DEF FLASH_Queue_push_tail, InRegion, apiVars, TypeOK
<1> QED
  BY <1>2, <1>3

(* Executing the queue.                                                    *)
LEMMA TypedExec ==
  ASSUME TypeOK, FLASH_Queue_exec
  PROVE  /\ n_tasks' = 0
         /\ op' \in [Task -> OpType]
         /\ n_ready' \in [Task -> Int]
         /\ n_macro_args' \in [Task -> Nat] /\ n_war_args' \in [Task -> Nat]
         /\ dep_arg' \in [Task -> Seq(Task)] /\ queue' \in [Task -> Nat]
         /\ write_task' \in [Block -> Task \cup {NULL}]
         /\ read_task' \in [Block -> Seq(Task)]
         /\ read_id' \in [Block -> Nat] /\ write_id' \in [Block -> Nat]
         /\ n_read_blocks' \in Nat /\ n_write_blocks' \in Nat
<1>1. CASE n_tasks = 0
  BY <1>1 DEF FLASH_Queue_exec, TypeOK, taskVars, blockVars
<1>2. CASE n_tasks # 0
  <2>1. /\ n_tasks' = 0 /\ n_read_blocks' = 0 /\ n_write_blocks' = 0
        /\ UNCHANGED <<read_id, write_id>>
    BY <1>2 DEF FLASH_Queue_exec, FLASH_Queue_reset
  <2>2. op' \in [Task -> OpType]
    BY <1>2, NoOpType DEF FLASH_Queue_exec
  <2>3. /\ n_ready' \in [Task -> Int] /\ queue' \in [Task -> Nat]
        /\ n_macro_args' \in [Task -> Nat] /\ n_war_args' \in [Task -> Nat]
    BY <1>2 DEF FLASH_Queue_exec
  <2>4. dep_arg' \in [Task -> Seq(Task)]
    <3>1. dep_arg' = [i \in Task |-> <<>>]
      BY <1>2 DEF FLASH_Queue_exec
    <3> QED
      BY <3>1
  <2>5. write_task' \in [Block -> Task \cup {NULL}]
    BY <1>2 DEF FLASH_Queue_exec, TypeOK
  <2>6. read_task' \in [Block -> Seq(Task)]
    <3>1. read_task' = [b \in Block |-> IF ReadBySome(b) THEN <<>> ELSE read_task[b]]
      BY <1>2 DEF FLASH_Queue_exec
    <3> QED
      BY <3>1 DEF TypeOK
  <2> QED
    BY <2>1, <2>2, <2>3, <2>4, <2>5, <2>6 DEF TypeOK
<1> QED
  BY <1>1, <1>2

LEMMA TypedEnd ==
  ASSUME Typed, FLASH_Queue_end
  PROVE  Typed'
<1> USE DEF Typed
<1>1. /\ ~pushing /\ initialized /\ stack > 0 /\ stack' = stack - 1
      /\ UNCHANGED <<initialized, enabled, pushVars>>
  BY DEF FLASH_Queue_end
<1>2. stack' \in 0..MaxStack
  BY <1>1, BoundsAssumption DEF TypeOK
<1>3. CASE stack = 1
  <2>1. FLASH_Queue_exec
    BY <1>3 DEF FLASH_Queue_end
  <2>2. TypeOK'
    BY <1>1, <1>2, <2>1, TypedExec, BoundsAssumption, SMTT(30) DEF TypeOK, pushVars
  <2>3. InRegion'
    BY <1>1, <1>3, <2>1, TypedExec DEF InRegion, pushVars
  <2> QED
    BY <2>2, <2>3
<1>4. CASE stack # 1
  <2>1. UNCHANGED <<n_tasks, op, taskVars, blockVars>>
    BY <1>4 DEF FLASH_Queue_end
  <2>2. TypeOK'
    BY <1>1, <1>2, <2>1 DEF TypeOK, taskVars, blockVars, pushVars
  <2>3. InRegion'
    BY <1>1, <1>4, <2>1 DEF InRegion, pushVars, TypeOK
  <2> QED
    BY <2>2, <2>3
<1> QED
  BY <1>3, <1>4

LEMMA TypedNext ==
  ASSUME Typed, [Next]_vars
  PROVE  Typed'
<1> USE DEF Typed
<1>1. CASE FLASH_Queue_init
  <2>1. TypeOK'
    BY <1>1, BoundsAssumption DEF FLASH_Queue_init, FLASH_Queue_reset, TypeOK, InRegion, taskVars, pushVars
  <2>2. InRegion'
    BY <1>1 DEF FLASH_Queue_init, FLASH_Queue_reset, InRegion, TypeOK, pushVars
  <2> QED
    BY <2>1, <2>2
<1>2. CASE FLASH_Queue_finalize
  <2>1. TypeOK'
    BY <1>2 DEF FLASH_Queue_finalize, TypeOK, cur, taskVars, blockVars, pushVars
  <2>2. InRegion'
    BY <1>2 DEF FLASH_Queue_finalize, InRegion, TypeOK, taskVars, blockVars, pushVars
  <2> QED
    BY <2>1, <2>2
<1>3. CASE FLASH_Queue_begin
  <2>1. stack' \in 0..MaxStack
    BY <1>3, BoundsAssumption DEF FLASH_Queue_begin, TypeOK
  <2> QED
    BY <1>3, <2>1 DEF FLASH_Queue_begin, TypeOK, InRegion, taskVars, blockVars, pushVars
<1>4. CASE FLASH_Queue_enable
  BY <1>4 DEF FLASH_Queue_enable, TypeOK, InRegion, taskVars, blockVars, pushVars
<1>5. CASE FLASH_Queue_disable
  <2>1. TypeOK'
    BY <1>5 DEF FLASH_Queue_disable, TypeOK, taskVars, blockVars, pushVars
  <2>2. InRegion'
    BY <1>5 DEF FLASH_Queue_disable, InRegion, TypeOK, taskVars, blockVars, pushVars
  <2> QED
    BY <2>1, <2>2
<1>6. CASE UNCHANGED vars
  <2>1. TypeOK'
    BY <1>6 DEF vars, apiVars, TypeOK, cur, taskVars, blockVars, pushVars
  <2>2. InRegion'
    BY <1>6 DEF vars, apiVars, InRegion, cur, taskVars, blockVars, pushVars
  <2> QED
    BY <2>1, <2>2
<1> QED
  BY <1>1, <1>2, <1>3, <1>4, <1>5, <1>6, TypedEnd, TypedAlloc, TypedInput, TypedOutput,
     TypedTail DEF Next

(* The types of the analyser's state are right, for any blocks, operations *)
(* and bounds: no counter of FLASH_Queue_push leaves its range and no      *)
(* list holds anything but tasks.                                          *)
THEOREM TypeCorrect == Spec => []TypeOK
<1>1. Typed /\ [Next]_vars => Typed'
  BY TypedNext
<1>2. Typed => TypeOK
  BY DEF Typed
<1> QED
  BY TypedInit, <1>1, <1>2, PTL DEF Spec

(* Between the first push and the execution of a region SuperMatrix stays  *)
(* enabled: FLASH_Queue_disable refuses inside a region.                   *)
THEOREM QueueEnabled == Spec => []QueuedOnlyIfEnabled
<1>1. Typed /\ [Next]_vars => Typed'
  BY TypedNext
<1>2. Typed => QueuedOnlyIfEnabled
  BY DEF Typed, InRegion, QueuedOnlyIfEnabled
<1> QED
  BY TypedInit, <1>1, <1>2, PTL DEF Spec

-----------------------------------------------------------------------------
(* How each step of FLASH_Queue_push changes who has accessed what.        *)

LEMMA NobodyBeyond ==
  ASSUME Typed, NEW i \in Task, NEW b, HasRead(i, b) \/ HasWritten(i, b)
  PROVE  i <= cur /\ (i = cur => pushing)
BY DEF Typed, TypeOK, HasRead, HasWritten, cur

LEMMA AccessAlloc ==
  ASSUME Typed, NEW o \in Op, FLASH_Task_alloc(o), NEW i \in Task, NEW b
  PROVE  (HasRead(i, b)' <=> HasRead(i, b)) /\ (HasWritten(i, b)' <=> HasWritten(i, b))
<1>1. /\ pushing = FALSE /\ pushing' = TRUE /\ i_in' = 0 /\ i_out' = 0
      /\ n_tasks' = n_tasks /\ op' = [op EXCEPT ![cur] = o]
  BY DEF FLASH_Task_alloc, Typed, TypeOK
<1>2. n_tasks \in Nat /\ op \in [Task -> OpType]
  BY DEF Typed, TypeOK
<1>3. i \in 1..n_tasks => op'[i] = op[i]
  BY <1>1, <1>2 DEF cur
<1> QED
  BY <1>1, <1>2, <1>3 DEF HasRead, HasWritten, Reads, Writes

LEMMA AccessInput ==
  ASSUME Typed, FLASH_Queue_push_input, NEW i \in Task, NEW b
  PROVE  /\ HasRead(i, b)' <=> HasRead(i, b) \/ (i = cur /\ b = InBlock)
         /\ HasWritten(i, b)' <=> HasWritten(i, b)
<1>1. /\ pushing /\ pushing' = pushing /\ i_in' = i_in + 1 /\ i_out' = i_out
      /\ n_tasks' = n_tasks /\ op' = op
  BY InputEffect
<1>2. n_tasks \in Nat /\ i_in \in Nat
  BY DEF Typed, TypeOK
<1>3. cur' = cur
  BY <1>1 DEF cur
<1>4. HasWritten(i, b)' <=> HasWritten(i, b)
  BY <1>1, <1>3 DEF HasWritten, Writes
<1>5. (\E m \in 1..i_in' : op[cur].in[m] = b) <=> (\E m \in 1..i_in : op[cur].in[m] = b) \/ b = InBlock
  BY <1>1, <1>2 DEF InBlock
<1>6. HasRead(i, b)' <=> HasRead(i, b) \/ (i = cur /\ b = InBlock)
  BY <1>1, <1>3, <1>5 DEF HasRead, Reads
<1> QED
  BY <1>4, <1>6

LEMMA AccessOutput ==
  ASSUME Typed, FLASH_Queue_push_output, NEW i \in Task, NEW b
  PROVE  /\ HasRead(i, b)' <=> HasRead(i, b)
         /\ HasWritten(i, b)' <=> HasWritten(i, b) \/ (i = cur /\ b = OutBlock)
<1>1. /\ pushing /\ pushing' = pushing /\ i_out' = i_out + 1 /\ i_in' = i_in
      /\ n_tasks' = n_tasks /\ op' = op
  BY OutputEffect
<1>2. n_tasks \in Nat /\ i_out \in Nat
  BY DEF Typed, TypeOK
<1>3. cur' = cur
  BY <1>1 DEF cur
<1>4. HasRead(i, b)' <=> HasRead(i, b)
  BY <1>1, <1>3 DEF HasRead, Reads
<1>5. (\E m \in 1..i_out' : op[cur].out[m] = b) <=> (\E m \in 1..i_out : op[cur].out[m] = b) \/ b = OutBlock
  BY <1>1, <1>2 DEF OutBlock
<1>6. HasWritten(i, b)' <=> HasWritten(i, b) \/ (i = cur /\ b = OutBlock)
  BY <1>1, <1>3, <1>5 DEF HasWritten, Writes
<1> QED
  BY <1>4, <1>6

LEMMA AccessTail ==
  ASSUME Typed, FLASH_Queue_push_tail, NEW i \in Task, NEW b
  PROVE  (HasRead(i, b)' <=> HasRead(i, b)) /\ (HasWritten(i, b)' <=> HasWritten(i, b))
<1>1. /\ pushing /\ i_in = Len(op[cur].in) /\ i_out = Len(op[cur].out)
      /\ pushing' = FALSE /\ n_tasks' = n_tasks + 1 /\ op' = op
  BY DEF FLASH_Queue_push_tail
<1>2. n_tasks \in Nat
  BY DEF Typed, TypeOK
<1>3. i \in 1..n_tasks' <=> i \in 1..n_tasks \/ i = cur
  BY <1>1, <1>2 DEF cur
<1>4. /\ b \in Reads(cur) <=> \E m \in 1..i_in : op[cur].in[m] = b
      /\ b \in Writes(cur) <=> \E m \in 1..i_out : op[cur].out[m] = b
  BY <1>1 DEF Reads, Writes
<1>5. Reads(i)' = Reads(i) /\ Writes(i)' = Writes(i)
  BY <1>1 DEF Reads, Writes
<1> QED
  BY <1>1, <1>3, <1>4, <1>5 DEF HasRead, HasWritten

-----------------------------------------------------------------------------
(* A step that only adds to the dependence lists keeps tasks in order.     *)
Extended ==
  \A i \in Task : /\ Len(dep_arg[i]) <= Len(dep_arg'[i])
                  /\ \A m \in 1..Len(dep_arg[i]) : dep_arg'[i][m] = dep_arg[i][m]

LEMMA ClosedBefore ==
  ASSUME dep_arg \in [Task -> Seq(Task)], dep_arg' \in [Task -> Seq(Task)], Extended,
         NEW S \in SUBSET Task, Closed(S)'
  PROVE  Closed(S)
<1> SUFFICES ASSUME NEW i \in Task, NEW m \in 1..Len(dep_arg[i]), dep_arg[i][m] \in S
             PROVE  i \in S
  BY DEF Closed
<1>1. m \in 1..Len(dep_arg'[i])
  <2>1. Len(dep_arg[i]) \in Nat /\ Len(dep_arg'[i]) \in Nat
    OBVIOUS
  <2> QED
    BY <2>1 DEF Extended
<1>2. dep_arg'[i][m] \in S
  BY DEF Extended
<1> QED
  BY <1>1, <1>2 DEF Closed

LEMMA BeforeKept ==
  ASSUME dep_arg \in [Task -> Seq(Task)], dep_arg' \in [Task -> Seq(Task)], Extended,
         NEW i, NEW j, Before(i, j)
  PROVE  Before(i, j)'
BY ClosedBefore DEF Before

-----------------------------------------------------------------------------
(* The invariant.                                                          *)
Analysis == LastWriter /\ ReadersSince /\ ClashesOrdered

LEMMA AnalysisInit == Init => Analysis
<1> SUFFICES ASSUME Init PROVE Analysis
  OBVIOUS
<1>1. \A i, b : ~HasRead(i, b) /\ ~HasWritten(i, b)
  BY DEF Init, HasRead, HasWritten
<1>2. \A b \in Block : write_task[b] = NULL /\ read_task[b] = <<>>
  BY DEF Init
<1>3. LastWriter
  BY <1>1, <1>2 DEF LastWriter, NULL, Task
<1>4. ReadersSince
  BY <1>1, <1>2 DEF ReadersSince, InReaders
<1>5. ClashesOrdered
  BY <1>1 DEF ClashesOrdered, Clash
<1> QED
  BY <1>3, <1>4, <1>5 DEF Analysis

(* A step that analyses nothing.                                           *)
LEMMA SameAnalysis ==
  ASSUME Typed, Analysis, UNCHANGED <<write_task, read_task, dep_arg>>,
         \A i \in Task, b \in Block :
           /\ HasRead(i, b)' <=> HasRead(i, b)
           /\ HasWritten(i, b)' <=> HasWritten(i, b)
  PROVE  Analysis'
<1>1. LastWriter'
  BY DEF Analysis, LastWriter
<1>2. \A i \in Task, b \in Block : InReaders(i, b)' <=> InReaders(i, b)
  BY DEF InReaders
<1>3. ReadersSince'
  BY <1>2 DEF Analysis, ReadersSince
<1>4. \A i, j \in Task : Before(i, j)' <=> Before(i, j)
  BY DEF Before, Closed
<1>5. \A i, j \in Task, b \in Block : Clash(i, j, b)' <=> Clash(i, j, b)
  BY DEF Clash
<1>6. ClashesOrdered'
  BY <1>4, <1>5 DEF Analysis, ClashesOrdered
<1> QED
  BY <1>1, <1>3, <1>6 DEF Analysis

(* An input block is read by the current task, after its last writer.      *)
LEMMA AnalysisInput ==
  ASSUME Typed, Analysis, FLASH_Queue_push_input
  PROVE  Analysis'
<1> DEFINE w == write_task[InBlock]
<1>1. cur \in Task /\ InBlock \in Block
  BY InputBlock DEF Typed
<1>2. /\ pushing /\ i_in < Len(op[cur].in)
      /\ UNCHANGED <<n_tasks, write_task>>
  BY InputEffect
<1>3. /\ dep_arg' = IF w = NULL THEN dep_arg ELSE [dep_arg EXCEPT ![w] = Append(@, cur)]
      /\ read_task' = IF read_task[InBlock] = <<>>
                         \/ read_task[InBlock][Len(read_task[InBlock])] # cur
                      THEN [read_task EXCEPT ![InBlock] = Append(@, cur)] ELSE read_task
  BY InputEffect
<1>4. /\ write_task \in [Block -> Task \cup {NULL}] /\ read_task \in [Block -> Seq(Task)]
      /\ dep_arg \in [Task -> Seq(Task)] /\ dep_arg' \in [Task -> Seq(Task)]
      /\ n_tasks \in Nat
  BY TypedInput, SMTT(30) DEF Typed, TypeOK
<1>5. \A i \in Task : \A b :
        /\ HasRead(i, b)' <=> HasRead(i, b) \/ (i = cur /\ b = InBlock)
        /\ HasWritten(i, b)' <=> HasWritten(i, b)
  BY AccessInput
\* the current task has written nothing yet
<1>6. \A b : ~HasWritten(cur, b)
  BY <1>2, SMTT(30) DEF HasWritten, Typed, TypeOK, InRegion, cur
<1>7. LastWriter'
  BY <1>2, <1>4, <1>5 DEF Analysis, LastWriter, NULL
<1>8. ReadersSince'
  <2>1. ASSUME NEW i \in Task, NEW b \in Block
        PROVE  InReaders(i, b)' <=> InReaders(i, b) \/ (i = cur /\ b = InBlock)
    <3>1. CASE read_task'[b] = read_task[b] /\ b # InBlock
      BY <3>1 DEF InReaders
    <3>2. CASE b = InBlock /\ read_task'[b] = Append(read_task[b], cur)
      <4>1. /\ Len(read_task'[b]) = Len(read_task[b]) + 1
            /\ Len(read_task[b]) \in Nat
            /\ \A m \in 1..Len(read_task[b]) : read_task'[b][m] = read_task[b][m]
            /\ read_task'[b][Len(read_task[b]) + 1] = cur
        BY <1>1, <1>4, <3>2
      <4> QED
        BY <3>2, <4>1 DEF InReaders
    <3>3. CASE /\ b = InBlock /\ read_task' = read_task
               /\ read_task[b] # <<>> /\ read_task[b][Len(read_task[b])] = cur
      <4>1. Len(read_task[b]) \in 1..Len(read_task[b])
        BY <1>4, <3>3
      <4> QED
        BY <3>3, <4>1 DEF InReaders
    <3> QED
      BY <1>1, <1>3, <1>4, <3>1, <3>2, <3>3
  <2> QED
    BY <1>2, <1>5, <2>1 DEF Analysis, ReadersSince
<1>9. Extended
  <2> SUFFICES ASSUME NEW i \in Task
               PROVE  /\ Len(dep_arg[i]) <= Len(dep_arg'[i])
                      /\ \A m \in 1..Len(dep_arg[i]) : dep_arg'[i][m] = dep_arg[i][m]
    BY DEF Extended
  <2>1. Len(dep_arg[i]) \in Nat
    BY <1>4
  <2> QED
    BY <1>1, <1>3, <1>4, <2>1
<1>10. ClashesOrdered'
  <2> SUFFICES ASSUME NEW i \in Task, NEW j \in Task, NEW b \in Block,
                      i < j, Clash(i, j, b)'
               PROVE  Before(i, j)'
    BY DEF ClashesOrdered
  <2>1. CASE Clash(i, j, b)
    BY <1>4, <1>9, <2>1, BeforeKept DEF Analysis, ClashesOrdered
  <2>2. CASE ~Clash(i, j, b)
    <3>1. (j = cur /\ b = InBlock /\ HasWritten(i, b)) \/ (i = cur /\ HasWritten(j, b))
      BY <1>5, <2>2 DEF Clash
    <3>2. j = cur /\ b = InBlock /\ HasWritten(i, b)
      BY <1>6, <3>1, NobodyBeyond, SMTT(30) DEF Typed, TypeOK, cur, Task
    <3>3. w \in Task /\ i <= w /\ HasWritten(w, InBlock)
      BY <1>1, <1>4, <3>2 DEF Analysis, LastWriter, NULL, Task
    <3>4. \E m \in 1..Len(dep_arg'[w]) : dep_arg'[w][m] = cur
      <4>1. dep_arg'[w] = Append(dep_arg[w], cur)
        BY <1>3, <1>4, <3>3, SMTT(30) DEF NULL, Task
      <4>2. dep_arg[w] \in Seq(Task)
        BY <1>4, <3>3
      <4>3. /\ Len(dep_arg[w]) + 1 \in 1..Len(dep_arg'[w])
            /\ dep_arg'[w][Len(dep_arg[w]) + 1] = cur
        BY <1>1, <4>1, <4>2
      <4> QED
        BY <4>3
    <3>5. i = w \/ Before(i, w)
      BY <1>1, <3>2, <3>3 DEF Analysis, ClashesOrdered, Clash, Task
    <3> SUFFICES ASSUME NEW S \in SUBSET Task, Closed(S)', cur \in S PROVE i \in S
      BY <3>2 DEF Before
    <3>6. w \in S
      BY <3>3, <3>4 DEF Closed
    <3>7. Closed(S)
      BY <1>4, <1>9, ClosedBefore
    <3> QED
      BY <3>5, <3>6, <3>7 DEF Before
  <2> QED
    BY <2>1, <2>2
<1> QED
  BY <1>7, <1>8, <1>10 DEF Analysis

(* An output block is written by the current task, after its last writer   *)
(* and every reader since; an earlier reader was ordered before that       *)
(* writer.                                                                 *)
LEMMA AnalysisOutput ==
  ASSUME Typed, Analysis, FLASH_Queue_push_output
  PROVE  Analysis'
<1> DEFINE w == write_task[OutBlock]
<1>1. cur \in Task /\ OutBlock \in Block
  BY OutputBlock DEF Typed
<1>2. /\ n_tasks' = n_tasks
      /\ read_task' = [read_task EXCEPT ![OutBlock] = <<>>]
      /\ write_task' = [write_task EXCEPT ![OutBlock] = cur]
  BY OutputEffect
<1>3. /\ write_task \in [Block -> Task \cup {NULL}] /\ read_task \in [Block -> Seq(Task)]
      /\ dep_arg \in [Task -> Seq(Task)] /\ dep_arg' \in [Task -> Seq(Task)]
      /\ n_tasks \in Nat
  BY TypedOutput, SMTT(30) DEF Typed, TypeOK
<1>4. \A i \in Task : \A b :
        /\ HasRead(i, b)' <=> HasRead(i, b)
        /\ HasWritten(i, b)' <=> HasWritten(i, b) \/ (i = cur /\ b = OutBlock)
  BY AccessOutput
<1>5. \A i \in Task : \A b : HasRead(i, b) \/ HasWritten(i, b) => i <= cur
  BY NobodyBeyond
<1>6. LastWriter'
  <2> SUFFICES ASSUME NEW b \in Block, NEW i \in Task
               PROVE  /\ write_task'[b] = i => HasWritten(i, b)'
                      /\ HasWritten(i, b)' => i <= write_task'[b]
    BY DEF LastWriter
  <2>1. CASE b = OutBlock
    BY <1>1, <1>2, <1>3, <1>4, <1>5, <2>1 DEF Task
  <2>2. CASE b # OutBlock
    BY <1>2, <1>3, <1>4, <2>2 DEF Analysis, LastWriter
  <2> QED
    BY <2>1, <2>2
<1>7. ReadersSince'
  <2> SUFFICES ASSUME NEW b \in Block, NEW i \in Task
               PROVE  /\ HasRead(i, b)' /\ i > write_task'[b] => InReaders(i, b)'
                      /\ InReaders(i, b)' => HasRead(i, b)'
    BY DEF ReadersSince
  <2>1. CASE b = OutBlock
    <3>1. write_task'[b] = cur /\ read_task'[b] = <<>>
      BY <1>1, <1>2, <1>3, <2>1
    <3>2. ~InReaders(i, b)'
      BY <3>1 DEF InReaders
    <3>3. ~(HasRead(i, b)' /\ i > write_task'[b])
      BY <1>1, <1>4, <1>5, <3>1 DEF Task
    <3> QED
      BY <3>2, <3>3
  <2>2. CASE b # OutBlock
    <3>1. read_task'[b] = read_task[b] /\ write_task'[b] = write_task[b]
      BY <1>2, <1>3, <2>2
    <3>2. InReaders(i, b)' <=> InReaders(i, b)
      BY <3>1 DEF InReaders
    <3> QED
      BY <1>4, <3>1, <3>2 DEF Analysis, ReadersSince
  <2> QED
    BY <2>1, <2>2
<1>8. Extended
  BY OutputEdges DEF Extended, Typed
<1>9. ClashesOrdered'
  <2> SUFFICES ASSUME NEW i \in Task, NEW j \in Task, NEW b \in Block,
                      i < j, Clash(i, j, b)'
               PROVE  Before(i, j)'
    BY DEF ClashesOrdered
  <2>1. CASE Clash(i, j, b)
    BY <1>3, <1>8, <2>1, BeforeKept DEF Analysis, ClashesOrdered
  <2>2. CASE ~Clash(i, j, b)
    <3>1. /\ b = OutBlock
          /\ j = cur /\ (HasRead(i, b) \/ HasWritten(i, b))
      BY <1>1, <1>4, <1>5, <2>2 DEF Clash, Task
    <3>2. i # cur /\ ~HasWritten(cur, b)
      BY <1>1, <2>2, <3>1 DEF Clash, Task
    <3>3. w # cur
      BY <1>1, <3>1, <3>2 DEF Analysis, LastWriter
    <3> SUFFICES ASSUME NEW S \in SUBSET Task, Closed(S)', cur \in S PROVE i \in S
      BY <3>1 DEF Before
    <3>4. Closed(S)
      BY <1>3, <1>8, ClosedBefore
    <3>5. ASSUME NEW x \in Task, \E m \in 1..Len(dep_arg'[x]) : dep_arg'[x][m] = cur
          PROVE  x \in S
      BY <3>5 DEF Closed
    <3>6. CASE i > w
      <4>1. HasRead(i, b) /\ InReaders(i, b)
        BY <1>1, <1>3, <3>1, <3>6 DEF Analysis, LastWriter, ReadersSince, NULL, Task
      <4>2. ReadNodesOf(OutBlock, i) # {}
        BY <3>1, <3>2, <4>1 DEF InReaders, ReadNodesOf, ReadNodes
      <4> QED
        BY <3>5, <4>2, OutputEdges DEF Typed
    <3>7. CASE i <= w
      <4>1. w \in Task
        BY <1>1, <1>3, <3>7 DEF NULL, Task
      <4>2. w \in S
        BY <3>3, <3>5, <4>1, OutputEdges DEF Typed
      <4>3. HasWritten(w, b)
        BY <1>1, <3>1, <4>1 DEF Analysis, LastWriter
      <4>4. i = w \/ Before(i, w)
        BY <3>1, <3>7, <4>1, <4>3 DEF Analysis, ClashesOrdered, Clash, Task
      <4> QED
        BY <3>4, <4>2, <4>4 DEF Before
    <3>8. i > w \/ i <= w
      <4>1. w \in Task \cup {NULL}
        BY <1>1, <1>3
      <4> QED
        BY <4>1 DEF NULL, Task
    <3> QED
      BY <3>6, <3>7, <3>8
  <2> QED
    BY <2>1, <2>2
<1> QED
  BY <1>6, <1>7, <1>9 DEF Analysis

(* Executing the queue frees all its tasks, and the blocks forget them:    *)
(* whatever a block remembers has accessed it.                             *)
LEMMA Forgotten ==
  ASSUME Typed, Analysis, FLASH_Queue_end, stack = 1, n_tasks # 0
  PROVE  \A b \in Block : write_task'[b] = NULL /\ read_task'[b] = <<>>
<1>1. pushing = FALSE
  BY DEF FLASH_Queue_end, Typed, TypeOK
<1>2. /\ write_task' = [b \in Block |->
             IF \E i \in 1..n_tasks : b \in Writes(i) THEN NULL ELSE write_task[b]]
      /\ read_task' = [b \in Block |-> IF ReadBySome(b) THEN <<>> ELSE read_task[b]]
  BY DEF FLASH_Queue_end, FLASH_Queue_exec
<1>3. write_task \in [Block -> Task \cup {NULL}] /\ read_task \in [Block -> Seq(Task)]
  BY DEF Typed, TypeOK
<1>4. ASSUME NEW b \in Block PROVE write_task'[b] = NULL
  <2>1. ASSUME write_task[b] # NULL
        PROVE  \E i \in 1..n_tasks : b \in Writes(i)
    <3>1. write_task[b] \in Task
      BY <1>3, <2>1
    <3> QED
      BY <1>1, <3>1 DEF Analysis, LastWriter, HasWritten
  <2> QED
    BY <1>2, <2>1
<1>5. ASSUME NEW b \in Block PROVE read_task'[b] = <<>>
  <2>1. ASSUME read_task[b] # <<>>
        PROVE  ReadBySome(b)
    <3>1. 1 \in 1..Len(read_task[b]) /\ read_task[b][1] \in Task
      BY <1>3, <2>1
    <3>2. InReaders(read_task[b][1], b)
      BY <3>1 DEF InReaders
    <3> QED
      BY <1>1, <3>1, <3>2 DEF Analysis, ReadersSince, HasRead, ReadBySome
  <2> QED
    BY <1>2, <2>1
<1> QED
  BY <1>4, <1>5

LEMMA AnalysisEnd ==
  ASSUME Typed, Analysis, FLASH_Queue_end
  PROVE  Analysis'
<1>1. pushing = FALSE /\ pushing' = FALSE
  BY DEF FLASH_Queue_end, Typed, TypeOK, pushVars
<1>2. CASE stack = 1 /\ n_tasks # 0
  <2>1. n_tasks' = 0
    BY <1>2 DEF FLASH_Queue_end, FLASH_Queue_exec, FLASH_Queue_reset
  <2>2. \A i, b : ~HasRead(i, b)' /\ ~HasWritten(i, b)'
    BY <1>1, <2>1 DEF HasRead, HasWritten
  <2>3. \A b \in Block : write_task'[b] = NULL /\ read_task'[b] = <<>>
    BY <1>2, Forgotten
  <2>6. \A b \in Block : \A i \in Task : ~InReaders(i, b)'
    BY <2>3 DEF InReaders
  <2>7. LastWriter'
    BY <2>2, <2>3 DEF LastWriter, NULL, Task
  <2>8. ReadersSince'
    BY <2>2, <2>6 DEF ReadersSince
  <2>9. ClashesOrdered'
    BY <2>2 DEF ClashesOrdered, Clash
  <2> QED
    BY <2>7, <2>8, <2>9 DEF Analysis
<1>3. CASE ~(stack = 1 /\ n_tasks # 0)
  <2>1. UNCHANGED <<n_tasks, op, write_task, read_task, dep_arg>>
    BY <1>3 DEF FLASH_Queue_end, FLASH_Queue_exec, taskVars, blockVars
  <2>2. \A i \in Task, b \in Block :
          /\ HasRead(i, b)' <=> HasRead(i, b)
          /\ HasWritten(i, b)' <=> HasWritten(i, b)
    BY <1>1, <2>1 DEF HasRead, HasWritten, Reads, Writes
  <2> QED
    BY <2>1, <2>2, SameAnalysis
<1> QED
  BY <1>2, <1>3

LEMMA AnalysisNext ==
  ASSUME Typed, Analysis, [Next]_vars
  PROVE  Analysis'
<1>1. ASSUME UNCHANGED <<n_tasks, op, pushVars, write_task, read_task, dep_arg>>
      PROVE  Analysis'
  <2>1. cur' = cur
    BY <1>1 DEF cur
  <2>2. \A i \in Task, b \in Block :
          /\ HasRead(i, b)' <=> HasRead(i, b)
          /\ HasWritten(i, b)' <=> HasWritten(i, b)
    BY <1>1, <2>1 DEF HasRead, HasWritten, Reads, Writes, pushVars
  <2> QED
    BY <1>1, <2>2, SameAnalysis
<1>2. CASE FLASH_Queue_init
  <2>1. n_tasks' = n_tasks
    BY <1>2 DEF FLASH_Queue_init, FLASH_Queue_reset, Typed, TypeOK, InRegion
  <2> QED
    BY <1>1, <1>2, <2>1 DEF FLASH_Queue_init, taskVars
<1>3. CASE FLASH_Queue_finalize
  BY <1>1, <1>3 DEF FLASH_Queue_finalize, taskVars, blockVars
<1>4. CASE FLASH_Queue_begin
  BY <1>1, <1>4 DEF FLASH_Queue_begin, taskVars, blockVars
<1>5. CASE FLASH_Queue_enable
  BY <1>1, <1>5 DEF FLASH_Queue_enable, taskVars, blockVars
<1>6. CASE FLASH_Queue_disable
  BY <1>1, <1>6 DEF FLASH_Queue_disable, taskVars, blockVars
<1>7. CASE UNCHANGED vars
  BY <1>1, <1>7 DEF vars, taskVars, blockVars
<1>8. ASSUME NEW o \in Op, FLASH_Task_alloc(o) PROVE Analysis'
  <2>1. UNCHANGED <<write_task, read_task, dep_arg>>
    BY <1>8 DEF FLASH_Task_alloc, blockVars
  <2> QED
    BY <1>8, <2>1, AccessAlloc, SameAnalysis
<1>9. CASE FLASH_Queue_push_tail
  <2>1. UNCHANGED <<write_task, read_task, dep_arg>>
    BY <1>9 DEF FLASH_Queue_push_tail, taskVars, blockVars
  <2> QED
    BY <1>9, <2>1, AccessTail, SameAnalysis
<1> QED
  BY <1>2, <1>3, <1>4, <1>5, <1>6, <1>7, <1>8, <1>9, AnalysisEnd, AnalysisInput,
     AnalysisOutput DEF Next

LEMMA Invariance == Spec => [](Typed /\ Analysis)
<1>1. Init => Typed /\ Analysis
  BY TypedInit, AnalysisInit
<1>2. Typed /\ Analysis /\ [Next]_vars => (Typed /\ Analysis)'
  BY TypedNext, AnalysisNext
<1> QED
  BY <1>1, <1>2, PTL DEF Spec

(* The dependence analysis is complete for every sequence of operations:   *)
(* an execution that waits for the notifications of the dependence lists   *)
(* runs every two tasks with a conflict in the order they were pushed.     *)
THEOREM DependencesComplete == Spec => []ConflictsOrdered
<1>1. Typed /\ Analysis => ConflictsOrdered
  <2> SUFFICES ASSUME Typed, Analysis, NEW i \in 1..n_tasks, NEW j \in 1..n_tasks,
                      i < j, Conflict(i, j)
               PROVE  Before(i, j)
    BY DEF ConflictsOrdered, Before
  <2>1. i \in Task /\ j \in Task
    <3>1. n_tasks \in 0..MaxTasks
      BY DEF Typed, TypeOK
    <3> QED
      BY <3>1, BoundsAssumption DEF Task
  <2>2. ASSUME NEW x \in Task
        PROVE  Reads(x) \subseteq Block /\ Writes(x) \subseteq Block
    <3>1. op[x] \in OpType
      BY DEF Typed, TypeOK
    <3>2. op[x].in \in Seq(Block) /\ op[x].out \in Seq(Block)
      BY <3>1 DEF OpType
    <3> QED
      BY <3>2 DEF Reads, Writes
  <2>3. PICK b \in Block : \/ b \in Writes(i) /\ b \in Reads(j) \cup Writes(j)
                           \/ b \in Reads(i) /\ b \in Writes(j)
    BY <2>1, <2>2 DEF Conflict
  <2>4. Clash(i, j, b)
    BY <2>3 DEF Clash, HasRead, HasWritten
  <2> QED
    BY <2>1, <2>3, <2>4 DEF Analysis, ClashesOrdered
<1> QED
  BY Invariance, <1>1, PTL

(* The blocks accessed in this region, and those written.                  *)
Touched == {b \in Block : write_task[b] # NULL \/ read_task[b] # <<>>}
Written == {b \in Block : write_task[b] # NULL}

(* Outside of the pushing of tasks an empty queue means that no block      *)
(* remembers anything.                                                     *)
LEMMA NothingRemembered ==
  ASSUME Typed, Analysis, n_tasks = 0, ~pushing
  PROVE  Touched = {} /\ Written = {}
<1>1. \A i, b : ~HasRead(i, b) /\ ~HasWritten(i, b)
  BY DEF HasRead, HasWritten
<1>2. ASSUME NEW b \in Block PROVE write_task[b] = NULL /\ read_task[b] = <<>>
  <2>1. write_task[b] \in Task \cup {NULL} /\ read_task[b] \in Seq(Task)
    BY DEF Typed, TypeOK
  <2>2. write_task[b] = NULL
    BY <1>1, <2>1 DEF Analysis, LastWriter
  <2>3. ASSUME read_task[b] # <<>> PROVE FALSE
    <3>1. 1 \in 1..Len(read_task[b]) /\ read_task[b][1] \in Task
      BY <2>1, <2>3
    <3>2. InReaders(read_task[b][1], b)
      BY <3>1 DEF InReaders
    <3> QED
      BY <1>1, <3>1, <3>2 DEF Analysis, ReadersSince
  <2> QED
    BY <2>2, <2>3
<1> QED
  BY <1>2 DEF Touched, Written

(* No block keeps a pointer to a freed task: outside of the regions every  *)
(* block has forgotten the tasks that accessed it.                         *)
THEOREM BlocksForget == Spec => []NoStaleTasks
<1>1. Typed /\ Analysis => NoStaleTasks
  <2> SUFFICES ASSUME Typed, Analysis, stack = 0, NEW b \in Block
               PROVE  write_task[b] = NULL /\ read_task[b] = <<>>
    BY DEF NoStaleTasks
  <2>1. n_tasks = 0 /\ pushing = FALSE
    BY DEF Typed, TypeOK, InRegion
  <2> QED
    BY <2>1, NothingRemembered DEF Touched, Written
<1> QED
  BY Invariance, <1>1, PTL


-----------------------------------------------------------------------------
(* The ids of the blocks.                                                  *)

(* f numbers the finitely many elements of T from 0 on.                    *)
Numbers(f, T, n) ==
  IsFiniteSet(T) /\ {f[b] : b \in T} = 0..(n - 1) /\ n = Cardinality(T)

Ids == Numbers(read_id, Touched, n_read_blocks) /\ Numbers(write_id, Written, n_write_blocks)

LEMMA NumberNone ==
  ASSUME NEW f PROVE Numbers(f, {}, 0)
BY FS_EmptySet DEF Numbers

(* A new element gets the next number.                                     *)
LEMMA NumberNext ==
  ASSUME NEW f \in [Block -> Nat], NEW T \in SUBSET Block, NEW n \in Nat, Numbers(f, T, n),
         NEW b \in Block, b \notin T
  PROVE  Numbers([f EXCEPT ![b] = n], T \cup {b}, n + 1)
<1> DEFINE g == [f EXCEPT ![b] = n]
<1>1. g[b] = n /\ \A a \in T : g[a] = f[a]
  OBVIOUS
<1>2. {g[a] : a \in T} = {f[a] : a \in T}
  BY <1>1
<1>3. {g[a] : a \in T \cup {b}} = {g[a] : a \in T} \cup {g[b]}
  OBVIOUS
<1>4. 0..(n + 1 - 1) = (0..(n - 1)) \cup {n}
  OBVIOUS
<1>5. {g[a] : a \in T \cup {b}} = 0..(n + 1 - 1)
  BY <1>1, <1>2, <1>3, <1>4 DEF Numbers
<1>6. IsFiniteSet(T \cup {b}) /\ Cardinality(T \cup {b}) = n + 1
  BY FS_AddElement DEF Numbers
<1>7. QED
  BY <1>5, <1>6 DEF Numbers

LEMMA IdsInput ==
  ASSUME Typed, Ids, FLASH_Queue_push_input
  PROVE  Ids'
<1>1. cur \in Task /\ InBlock \in Block
  BY InputBlock DEF Typed
<1>2. /\ write_task \in [Block -> Task \cup {NULL}] /\ read_task \in [Block -> Seq(Task)]
      /\ read_id \in [Block -> Nat] /\ n_read_blocks \in Nat
  BY DEF Typed, TypeOK
<1>3. /\ read_id' = IF Untouched(InBlock) THEN [read_id EXCEPT ![InBlock] = n_read_blocks]
                                    ELSE read_id
      /\ n_read_blocks' = IF Untouched(InBlock) THEN n_read_blocks + 1 ELSE n_read_blocks
      /\ read_task' = IF read_task[InBlock] = <<>>
                         \/ read_task[InBlock][Len(read_task[InBlock])] # cur
                      THEN [read_task EXCEPT ![InBlock] = Append(@, cur)] ELSE read_task
      /\ UNCHANGED <<write_task, write_id, n_write_blocks>>
  BY InputEffect
<1>4. Written' = Written
  BY <1>3 DEF Written
<1>5. \A b \in Block : read_task'[b] # <<>> <=> read_task[b] # <<>> \/ b = InBlock
  <2> SUFFICES ASSUME NEW b \in Block
               PROVE  read_task'[b] # <<>> <=> read_task[b] # <<>> \/ b = InBlock
    OBVIOUS
  <2>1. Append(read_task[InBlock], cur) # <<>>
    <3>1. PICK s \in Seq(Task) : s = read_task[InBlock]
      BY <1>1, <1>2
    <3>2. Len(Append(s, cur)) # 0
      BY <1>1
    <3> QED
      BY <3>1, <3>2
  <2> QED
    BY <1>1, <1>2, <1>3, <2>1
<1>6. Touched' = Touched \cup {InBlock} /\ Touched \in SUBSET Block
  BY <1>1, <1>3, <1>5 DEF Touched
<1>7. Untouched(InBlock) <=> InBlock \notin Touched
  BY <1>1 DEF Untouched, Touched
<1>8. Numbers(read_id', Touched', n_read_blocks')
  <2>1. CASE InBlock \in Touched
    <3>1. Touched' = Touched /\ read_id' = read_id /\ n_read_blocks' = n_read_blocks
      BY <1>3, <1>6, <1>7, <2>1
    <3> QED
      BY <3>1 DEF Ids
  <2>2. CASE InBlock \notin Touched
    <3>1. Numbers([read_id EXCEPT ![InBlock] = n_read_blocks], Touched \cup {InBlock},
                  n_read_blocks + 1)
      BY <1>1, <1>2, <1>6, <2>2, NumberNext DEF Ids
    <3> QED
      BY <1>3, <1>6, <1>7, <2>2, <3>1
  <2> QED
    BY <2>1, <2>2
<1> QED
  BY <1>3, <1>4, <1>8 DEF Ids

LEMMA IdsOutput ==
  ASSUME Typed, Ids, FLASH_Queue_push_output
  PROVE  Ids'
<1>1. cur \in Task /\ OutBlock \in Block
  BY OutputBlock DEF Typed
<1>2. /\ write_task \in [Block -> Task \cup {NULL}] /\ read_task \in [Block -> Seq(Task)]
      /\ read_id \in [Block -> Nat] /\ n_read_blocks \in Nat
      /\ write_id \in [Block -> Nat] /\ n_write_blocks \in Nat
  BY DEF Typed, TypeOK
<1>3. /\ write_id' = IF write_task[OutBlock] = NULL
                     THEN [write_id EXCEPT ![OutBlock] = n_write_blocks] ELSE write_id
      /\ n_write_blocks' = IF write_task[OutBlock] = NULL THEN n_write_blocks + 1
                                                          ELSE n_write_blocks
      /\ read_id' = IF Untouched(OutBlock) THEN [read_id EXCEPT ![OutBlock] = n_read_blocks]
                                     ELSE read_id
      /\ n_read_blocks' = IF Untouched(OutBlock) THEN n_read_blocks + 1 ELSE n_read_blocks
      /\ read_task' = [read_task EXCEPT ![OutBlock] = <<>>]
      /\ write_task' = [write_task EXCEPT ![OutBlock] = cur]
  BY OutputEffect
<1>4. cur # NULL
  BY <1>1 DEF Task, NULL
<1>5. Written' = Written \cup {OutBlock} /\ Written \in SUBSET Block
  BY <1>1, <1>2, <1>3, <1>4 DEF Written
<1>6. Touched' = Touched \cup {OutBlock} /\ Touched \in SUBSET Block
  BY <1>1, <1>2, <1>3, <1>4 DEF Touched
<1>7. /\ Untouched(OutBlock) <=> OutBlock \notin Touched
      /\ write_task[OutBlock] = NULL <=> OutBlock \notin Written
  BY <1>1 DEF Untouched, Touched, Written
<1>8. Numbers(read_id', Touched', n_read_blocks')
  <2>1. CASE OutBlock \in Touched
    <3>1. Touched' = Touched /\ read_id' = read_id /\ n_read_blocks' = n_read_blocks
      BY <1>3, <1>6, <1>7, <2>1
    <3> QED
      BY <3>1 DEF Ids
  <2>2. CASE OutBlock \notin Touched
    <3>1. Numbers([read_id EXCEPT ![OutBlock] = n_read_blocks], Touched \cup {OutBlock},
                  n_read_blocks + 1)
      BY <1>1, <1>2, <1>6, <2>2, NumberNext DEF Ids
    <3> QED
      BY <1>3, <1>6, <1>7, <2>2, <3>1
  <2> QED
    BY <2>1, <2>2
<1>9. Numbers(write_id', Written', n_write_blocks')
  <2>1. CASE OutBlock \in Written
    <3>1. Written' = Written /\ write_id' = write_id /\ n_write_blocks' = n_write_blocks
      BY <1>3, <1>5, <1>7, <2>1
    <3> QED
      BY <3>1 DEF Ids
  <2>2. CASE OutBlock \notin Written
    <3>1. Numbers([write_id EXCEPT ![OutBlock] = n_write_blocks], Written \cup {OutBlock},
                  n_write_blocks + 1)
      BY <1>1, <1>2, <1>5, <2>2, NumberNext DEF Ids
    <3> QED
      BY <1>3, <1>5, <1>7, <2>2, <3>1
  <2> QED
    BY <2>1, <2>2
<1> QED
  BY <1>8, <1>9 DEF Ids

LEMMA IdsNext ==
  ASSUME Typed, Analysis, Ids, [Next]_vars
  PROVE  Ids'
<1>1. ASSUME UNCHANGED blockVars PROVE Ids'
  BY <1>1 DEF Ids, Touched, Written, blockVars
<1>2. ASSUME n_read_blocks' = 0, n_write_blocks' = 0, Touched' = {}, Written' = {} PROVE Ids'
  <2>1. \A f : Numbers(f, {}, 0)
    BY NumberNone
  <2> QED
    BY <1>2, <2>1 DEF Ids
<1>3. CASE FLASH_Queue_init
  <2>1. n_tasks = 0 /\ ~pushing
    BY <1>3 DEF FLASH_Queue_init, Typed, TypeOK, InRegion
  <2>2. /\ n_read_blocks' = 0 /\ n_write_blocks' = 0
        /\ write_task' = write_task /\ read_task' = read_task
    BY <1>3 DEF FLASH_Queue_init, FLASH_Queue_reset
  <2>3. Touched' = {} /\ Written' = {}
    BY <2>1, <2>2, NothingRemembered DEF Touched, Written
  <2> QED
    BY <1>2, <2>2, <2>3
<1>4. CASE FLASH_Queue_end
  <2>1. CASE stack = 1 /\ n_tasks # 0
    <3>1. n_read_blocks' = 0 /\ n_write_blocks' = 0
      BY <1>4, <2>1 DEF FLASH_Queue_end, FLASH_Queue_exec, FLASH_Queue_reset
    <3>2. Touched' = {} /\ Written' = {}
      BY <1>4, <2>1, Forgotten DEF Touched, Written
    <3> QED
      BY <1>2, <3>1, <3>2
  <2>2. CASE ~(stack = 1 /\ n_tasks # 0)
    BY <1>1, <1>4, <2>2 DEF FLASH_Queue_end, FLASH_Queue_exec
  <2> QED
    BY <2>1, <2>2
<1>5. CASE FLASH_Queue_finalize \/ FLASH_Queue_begin \/ FLASH_Queue_enable \/ FLASH_Queue_disable
  BY <1>1, <1>5 DEF FLASH_Queue_finalize, FLASH_Queue_begin, FLASH_Queue_enable, FLASH_Queue_disable
<1>6. CASE FLASH_Queue_push_tail \/ \E o \in Op : FLASH_Task_alloc(o)
  BY <1>1, <1>6 DEF FLASH_Queue_push_tail, FLASH_Task_alloc
<1>7. CASE UNCHANGED vars
  BY <1>1, <1>7 DEF vars
<1> QED
  BY <1>3, <1>4, <1>5, <1>6, <1>7, IdsInput, IdsOutput DEF Next

(* Whatever a region enqueues, the ids of the blocks it touches are 0, 1,  *)
(* 2 and so on without a gap or a repetition, also for a block that is     *)
(* read and written, or twice an operand of one task.                      *)
THEOREM IdsAreDense == Spec => []BlockIdsDense
<1>1. Init => Ids
  <2> SUFFICES ASSUME Init PROVE Ids
    OBVIOUS
  <2>1. Touched = {} /\ Written = {} /\ n_read_blocks = 0 /\ n_write_blocks = 0
    BY DEF Init, Touched, Written
  <2> QED
    BY <2>1, NumberNone DEF Ids
<1>2. (Typed /\ Analysis) /\ Ids /\ [Next]_vars => Ids'
  BY IdsNext
<1>3. Ids => BlockIdsDense
  BY DEF Ids, Numbers, Touched, Written, BlockIdsDense
<1> QED
  BY Invariance, <1>1, <1>2, <1>3, PTL DEF Spec



-----------------------------------------------------------------------------
(* The counts of dependences.                                              *)

(* The nodes of the lists d that name task i, and n[j] more nodes on the   *)
(* list of each task j.                                                    *)
Edges(d, i) == {e \in UNION {{j} \X (1..Len(d[j])) : j \in Task} : d[e[1]][e[2]] = i}
More(d, n) == UNION {{j} \X ((Len(d[j]) + 1)..(Len(d[j]) + n[j])) : j \in Task}

(* The lists e are the lists d with n[j] nodes for task c behind each.     *)
Grown(d, e, n, c) ==
  \A j \in Task :
    /\ Len(e[j]) = Len(d[j]) + n[j]
    /\ \A m \in 1..Len(d[j]) : e[j][m] = d[j][m]
    /\ \A m \in (Len(d[j]) + 1)..(Len(d[j]) + n[j]) : e[j][m] = c

LEMMA IsEdge ==
  ASSUME NEW d, NEW i, NEW p
  PROVE  p \in Edges(d, i) <=>
           \E j \in Task : \E m \in 1..Len(d[j]) : p = <<j, m>> /\ d[j][m] = i
BY DEF Edges

LEMMA EdgesGrow ==
  ASSUME NEW d \in [Task -> Seq(Task)], NEW e \in [Task -> Seq(Task)], NEW n \in [Task -> Nat],
         NEW c \in Task, Grown(d, e, n, c)
  PROVE  /\ \A i \in Task : i # c => Edges(e, i) = Edges(d, i)
         /\ Edges(e, c) = Edges(d, c) \cup More(d, n)
         /\ Edges(d, c) \cap More(d, n) = {}
<1>2. \A p : p \in More(d, n) <=>
               \E j \in Task : \E m \in (Len(d[j]) + 1)..(Len(d[j]) + n[j]) : p = <<j, m>>
  BY DEF More
<1>3. ASSUME NEW j \in Task
      PROVE  /\ Len(d[j]) \in Nat /\ n[j] \in Nat /\ Len(e[j]) = Len(d[j]) + n[j]
             /\ \A m \in 1..Len(d[j]) : e[j][m] = d[j][m]
             /\ \A m \in (Len(d[j]) + 1)..(Len(d[j]) + n[j]) : e[j][m] = c
  <2>1. d[j] \in Seq(Task)
    OBVIOUS
  <2>2. Len(d[j]) \in Nat
    BY <2>1
  <2> QED
    BY <2>2 DEF Grown
<1>4. ASSUME NEW j \in Task, NEW m \in 1..Len(d[j])
      PROVE  m \in 1..Len(e[j]) /\ e[j][m] = d[j][m]
  <2>1. e[j][m] = d[j][m]
    BY <1>3
  <2>2. m \in 1..Len(e[j])
    BY <1>3
  <2> QED
    BY <2>1, <2>2
<1>5. ASSUME NEW j \in Task, NEW m \in (Len(d[j]) + 1)..(Len(d[j]) + n[j])
      PROVE  m \in 1..Len(e[j]) /\ e[j][m] = c
  BY <1>3
<1>6. ASSUME NEW j \in Task, NEW m \in 1..Len(e[j])
      PROVE  m \in 1..Len(d[j]) \/ m \in (Len(d[j]) + 1)..(Len(d[j]) + n[j])
  BY <1>3
<1>8. ASSUME NEW i, NEW p \in Edges(d, i) PROVE p \in Edges(e, i)
  <2>1. PICK j \in Task : \E m \in 1..Len(d[j]) : p = <<j, m>> /\ d[j][m] = i
    BY IsEdge
  <2>2. PICK m \in 1..Len(d[j]) : p = <<j, m>> /\ d[j][m] = i
    BY <2>1
  <2>3. m \in 1..Len(e[j]) /\ p = <<j, m>> /\ e[j][m] = i
    BY <1>4, <2>2
  <2> QED
    BY <2>3, IsEdge
<1>9. ASSUME NEW p \in More(d, n) PROVE p \in Edges(e, c)
  <2>1. PICK j \in Task : \E m \in (Len(d[j]) + 1)..(Len(d[j]) + n[j]) : p = <<j, m>>
    BY <1>2
  <2>2. PICK m \in (Len(d[j]) + 1)..(Len(d[j]) + n[j]) : p = <<j, m>>
    BY <2>1
  <2>3. m \in 1..Len(e[j]) /\ p = <<j, m>> /\ e[j][m] = c
    BY <1>5, <2>2
  <2> QED
    BY <2>3, IsEdge
<1>10. ASSUME NEW i, NEW p \in Edges(e, i)
       PROVE  p \in Edges(d, i) \/ (i = c /\ p \in More(d, n))
  <2>1. PICK j \in Task : \E m \in 1..Len(e[j]) : p = <<j, m>> /\ e[j][m] = i
    BY IsEdge
  <2>2. PICK m \in 1..Len(e[j]) : p = <<j, m>> /\ e[j][m] = i
    BY <2>1
  <2>3. CASE m \in 1..Len(d[j])
    <3>1. p = <<j, m>> /\ d[j][m] = i
      BY <1>4, <2>2, <2>3
    <3> QED
      BY <2>3, <3>1, IsEdge
  <2>4. CASE m \in (Len(d[j]) + 1)..(Len(d[j]) + n[j])
    BY <1>2, <1>5, <2>2, <2>4
  <2> QED
    BY <1>6, <2>3, <2>4
<1>7. ASSUME NEW p \in Edges(d, c), p \in More(d, n) PROVE FALSE
  <2>1. PICK j \in Task : \E m \in 1..Len(d[j]) : p = <<j, m>>
    BY IsEdge
  <2>2. PICK m \in 1..Len(d[j]) : p = <<j, m>>
    BY <2>1
  <2>3. m \in (Len(d[j]) + 1)..(Len(d[j]) + n[j])
    BY <1>2, <1>7, <2>2
  <2> QED
    BY <1>3, <2>2, <2>3
<1> QED
  BY <1>7, <1>8, <1>9, <1>10

(* The sets P[j] are a partition of R, and n[j] is the size of P[j].       *)
Parts(P, R, n) ==
  /\ IsFiniteSet(R) /\ P \in [Task -> SUBSET R]
  /\ \A x \in R : \E j \in Task : x \in P[j]
  /\ \A i, j \in Task : i # j => P[i] \cap P[j] = {}
  /\ \A j \in Task : Cardinality(P[j]) = n[j]

(* As many new nodes as there are elements in a set with such a partition. *)
LEMMA MoreCount ==
  ASSUME NEW d \in [Task -> Seq(Task)], NEW n \in [Task -> Nat], NEW R, NEW P, Parts(P, R, n)
  PROVE  IsFiniteSet(More(d, n)) /\ Cardinality(More(d, n)) = Cardinality(R)
<1> USE DEF Parts
<1>1. \A j \in Task : Bijection(1..n[j], P[j]) # {}
  <2> SUFFICES ASSUME NEW j \in Task PROVE Bijection(1..n[j], P[j]) # {}
    OBVIOUS
  <2>1. P[j] \in SUBSET R
    OBVIOUS
  <2>2. IsFiniteSet(P[j])
    BY <2>1, FS_Subset
  <2> QED
    BY <2>2, FS_CardinalityType DEF ExistsBijection
<1> DEFINE g == [j \in Task |-> CHOOSE h : h \in Bijection(1..n[j], P[j])]
<1>2. \A j \in Task : g[j] \in Bijection(1..n[j], P[j])
  BY <1>1
<1> HIDE DEF g
<1>3. ASSUME NEW j \in Task
      PROVE  /\ \A m \in 1..n[j] : g[j][m] \in P[j]
             /\ \A m, l \in 1..n[j] : g[j][m] = g[j][l] => m = l
             /\ \A x \in P[j] : \E m \in 1..n[j] : g[j][m] = x
  <2>1. PICK h : h = g[j]
    OBVIOUS
  <2>2. h \in Bijection(1..n[j], P[j])
    BY <1>2, <2>1
  <2>3. h \in [1..n[j] -> P[j]]
    BY <2>2, Fun_BijectionProperties
  <2>4. \A m, l \in 1..n[j] : h[m] = h[l] => m = l
    BY <2>2, Fun_BijectionProperties
  <2>5. \A x \in P[j] : \E m \in 1..n[j] : h[m] = x
    BY <2>2, Fun_BijectionProperties
  <2> QED
    BY <2>1, <2>3, <2>4, <2>5
<1>4. \A p : p \in More(d, n) <=>
               \E j \in Task : \E m \in (Len(d[j]) + 1)..(Len(d[j]) + n[j]) : p = <<j, m>>
  BY DEF More
<1> DEFINE f == [p \in More(d, n) |-> g[p[1]][p[2] - Len(d[p[1]])]]
<1>5. ASSUME NEW j \in Task, NEW m \in 1..n[j]
      PROVE  <<j, Len(d[j]) + m>> \in More(d, n) /\ f[<<j, Len(d[j]) + m>>] = g[j][m]
  <2>1. d[j] \in Seq(Task) /\ n[j] \in Nat
    OBVIOUS
  <2>2. PICK l \in Nat : l = Len(d[j])
    BY <2>1
  <2>3. l + m \in (l + 1)..(l + n[j]) /\ (l + m) - l = m
    BY <2>1, <2>2
  <2>4. <<j, l + m>> \in More(d, n)
    BY <1>4, <2>2, <2>3
  <2> QED
    BY <2>2, <2>3, <2>4
<1>6. ASSUME NEW p \in More(d, n)
      PROVE  \E j \in Task : \E m \in 1..n[j] : p = <<j, Len(d[j]) + m>> /\ f[p] = g[j][m]
  <2>1. PICK j \in Task : \E m \in (Len(d[j]) + 1)..(Len(d[j]) + n[j]) : p = <<j, m>>
    BY <1>4
  <2>2. PICK m \in (Len(d[j]) + 1)..(Len(d[j]) + n[j]) : p = <<j, m>>
    BY <2>1
  <2>3. d[j] \in Seq(Task) /\ n[j] \in Nat
    OBVIOUS
  <2>4. PICK l \in Nat : l = Len(d[j])
    BY <2>3
  <2>5. m - l \in 1..n[j] /\ l + (m - l) = m
    BY <2>3, <2>4
  <2>6. p = <<j, Len(d[j]) + (m - l)>>
    BY <2>2, <2>4, <2>5
  <2>7. f[p] = g[j][m - l]
    BY <2>2, <2>4
  <2> QED
    BY <2>5, <2>6, <2>7
<1> HIDE DEF f
<1>7. f \in [More(d, n) -> R]
  <2>1. ASSUME NEW p \in More(d, n) PROVE f[p] \in R
    <3>1. PICK j \in Task : \E m \in 1..n[j] : f[p] = g[j][m]
      BY <1>6
    <3>2. f[p] \in P[j] /\ P[j] \in SUBSET R
      BY <1>3, <3>1
    <3> QED
      BY <3>2
  <2>2. f = [p \in More(d, n) |-> f[p]]
    BY DEF f
  <2> QED
    BY <2>1, <2>2
<1>8. ASSUME NEW p \in More(d, n), NEW q \in More(d, n), f[p] = f[q] PROVE p = q
  <2>1. PICK j \in Task : \E m \in 1..n[j] : p = <<j, Len(d[j]) + m>> /\ f[p] = g[j][m]
    BY <1>6
  <2>2. PICK m \in 1..n[j] : p = <<j, Len(d[j]) + m>> /\ f[p] = g[j][m]
    BY <2>1
  <2>3. PICK i \in Task : \E l \in 1..n[i] : q = <<i, Len(d[i]) + l>> /\ f[q] = g[i][l]
    BY <1>6
  <2>4. PICK l \in 1..n[i] : q = <<i, Len(d[i]) + l>> /\ f[q] = g[i][l]
    BY <2>3
  <2>5. g[j][m] \in P[j] /\ g[j][m] \in P[i]
    BY <1>3, <1>8, <2>2, <2>4, SMTT(30)
  <2>6. i = j
    BY <2>5
  <2>7. m = l
    BY <1>3, <1>8, <2>2, <2>4, <2>6
  <2> QED
    BY <2>2, <2>4, <2>6, <2>7
<1>9. ASSUME NEW x \in R PROVE \E p \in More(d, n) : f[p] = x
  <2>1. PICK j \in Task : x \in P[j]
    OBVIOUS
  <2>2. PICK m \in 1..n[j] : g[j][m] = x
    BY <1>3, <2>1
  <2> QED
    BY <1>5, <2>2, ZenonT(60)
<1>10. f \in Injection(More(d, n), R)
  BY <1>7, <1>8, Fun_IsInj
<1>11. f \in Surjection(More(d, n), R)
  BY <1>7, <1>9, Fun_IsSurj
<1> QED
  BY <1>10, <1>11, FS_Injection



(* The next step adds n[j] nodes for the current task to the list of j.    *)
LEMMA NewEdges ==
  ASSUME Typed, Typed', NEW n \in [Task -> Nat], cur \in Task,
         Grown(dep_arg, dep_arg', n, cur), IsFiniteSet(InEdges(cur)),
         IsFiniteSet(More(dep_arg, n))
  PROVE  /\ \A i \in Task : i # cur => InEdges(i)' = InEdges(i)
         /\ IsFiniteSet(Edges(dep_arg', cur))
         /\ Cardinality(Edges(dep_arg', cur))
              = Cardinality(InEdges(cur)) + Cardinality(More(dep_arg, n))
<1>1. dep_arg \in [Task -> Seq(Task)] /\ dep_arg' \in [Task -> Seq(Task)]
  BY DEF Typed, TypeOK
<1>2. \A i \in Task : InEdges(i) = Edges(dep_arg, i) /\ InEdges(i)' = Edges(dep_arg', i)
  BY DEF InEdges, Nodes, Edges
<1>3. PICK d \in [Task -> Seq(Task)] : d = dep_arg
  BY <1>1
<1>4. PICK e \in [Task -> Seq(Task)] : e = dep_arg'
  BY <1>1
<1>5. PICK c \in Task : c = cur
  OBVIOUS
<1>6. /\ \A i \in Task : i # c => Edges(e, i) = Edges(d, i)
      /\ Edges(e, c) = Edges(d, c) \cup More(d, n)
      /\ Edges(d, c) \cap More(d, n) = {}
  <2>1. Grown(d, e, n, c)
    BY <1>3, <1>4, <1>5
  <2> QED
    BY <2>1, EdgesGrow
<1>7. IsFiniteSet(Edges(d, c)) /\ IsFiniteSet(More(d, n))
  BY <1>2, <1>3, <1>5
<1>8. /\ IsFiniteSet(Edges(d, c) \cup More(d, n))
      /\ Cardinality(Edges(d, c) \cup More(d, n))
           = Cardinality(Edges(d, c)) + Cardinality(More(d, n)) - Cardinality({})
  BY <1>6, <1>7, FS_Union
<1>9. Cardinality(Edges(d, c)) \in Nat /\ Cardinality(More(d, n)) \in Nat /\ Cardinality({}) = 0
  BY <1>7, FS_CardinalityType, FS_EmptySet
<1>10. /\ IsFiniteSet(Edges(e, c))
       /\ Cardinality(Edges(e, c)) = Cardinality(Edges(d, c)) + Cardinality(More(d, n))
  BY <1>6, <1>8, <1>9
<1> QED
  BY <1>2, <1>3, <1>4, <1>5, <1>6, <1>10

(* An input with a last writer adds one node for the current task.         *)
LEMMA InputNodes ==
  ASSUME Typed, FLASH_Queue_push_input, IsFiniteSet(InEdges(cur))
  PROVE  /\ \A i \in Task : i # cur => InEdges(i)' = InEdges(i)
         /\ IsFiniteSet(Edges(dep_arg', cur))
         /\ Cardinality(Edges(dep_arg', cur))
              = Cardinality(InEdges(cur)) + IF write_task[InBlock] = NULL THEN 0 ELSE 1
<1> DEFINE w == write_task[InBlock]
<1>1. cur \in Task /\ InBlock \in Block
  BY InputBlock DEF Typed
<1>2. /\ dep_arg \in [Task -> Seq(Task)] /\ dep_arg' \in [Task -> Seq(Task)] /\ Typed'
      /\ w \in Task \cup {NULL}
  BY <1>1, TypedInput DEF Typed, TypeOK
<1>3. dep_arg' = IF w = NULL THEN dep_arg ELSE [dep_arg EXCEPT ![w] = Append(@, cur)]
  BY InputEffect
<1>4. CASE w = NULL
  <2>1. Cardinality(InEdges(cur)) \in Nat
    BY FS_CardinalityType
  <2>2. dep_arg' = dep_arg
    BY <1>3, <1>4
  <2>3. \A i : InEdges(i)' = InEdges(i)
    BY <2>2 DEF InEdges, Nodes
  <2>4. Edges(dep_arg', cur) = InEdges(cur)
    BY <2>2 DEF InEdges, Nodes, Edges
  <2> QED
    BY <1>4, <2>1, <2>3, <2>4
<1>5. CASE w # NULL
  <2> DEFINE n == [j \in Task |-> IF j = w THEN 1 ELSE 0]
             P == [j \in Task |-> IF j = w THEN {0} ELSE {}]
  <2>0. w \in Task
    BY <1>2, <1>5
  <2> HIDE DEF w
  <2>1. IsFiniteSet({0}) /\ Cardinality({0}) = 1 /\ Cardinality({}) = 0
    BY FS_Singleton, FS_EmptySet
  <2>2. n \in [Task -> Nat] /\ P \in [Task -> SUBSET {0}]
    OBVIOUS
  <2>3. /\ \A x \in {0} : \E j \in Task : x \in P[j]
        /\ \A i, j \in Task : i # j => P[i] \cap P[j] = {}
        /\ \A j \in Task : Cardinality(P[j]) = n[j]
    BY <2>0, <2>1
  <2>4. ASSUME NEW j \in Task
        PROVE  /\ Len(dep_arg'[j]) = Len(dep_arg[j]) + n[j]
               /\ \A m \in 1..Len(dep_arg[j]) : dep_arg'[j][m] = dep_arg[j][m]
               /\ \A m \in (Len(dep_arg[j]) + 1)..(Len(dep_arg[j]) + n[j]) : dep_arg'[j][m] = cur
    <3>1. PICK s \in Seq(Task) : s = dep_arg[j]
      BY <1>2
    <3>2. Len(s) \in Nat
      OBVIOUS
    <3>3. CASE j = w
      <4>1. dep_arg'[j] = Append(s, cur) /\ n[j] = 1
        BY <1>2, <1>3, <1>5, <3>1, <3>3
      <4>2. /\ Len(Append(s, cur)) = Len(s) + 1
            /\ \A m \in 1..Len(s) : Append(s, cur)[m] = s[m]
            /\ Append(s, cur)[Len(s) + 1] = cur
        BY <1>1
      <4>3. \A m \in (Len(s) + 1)..(Len(s) + 1) : m = Len(s) + 1
        BY <3>2
      <4> QED
        BY <3>1, <4>1, <4>2, <4>3
    <3>4. CASE j # w
      <4>1. dep_arg'[j] = s /\ n[j] = 0
        BY <1>2, <1>3, <1>5, <3>1, <3>4
      <4>2. Len(s) + 0 = Len(s) /\ (Len(s) + 1)..(Len(s) + 0) = {}
        BY <3>2
      <4> QED
        BY <3>1, <4>1, <4>2
    <3> QED
      BY <3>3, <3>4
  <2> HIDE DEF n, P
  <2>5. Grown(dep_arg, dep_arg', n, cur)
    BY <2>4 DEF Grown
  <2>6. IsFiniteSet(More(dep_arg, n)) /\ Cardinality(More(dep_arg, n)) = 1
    <3>1. PICK d \in [Task -> Seq(Task)] : d = dep_arg
      BY <1>2
    <3>3. Parts(P, {0}, n)
      BY <2>1, <2>2, <2>3 DEF Parts
    <3>2. IsFiniteSet(More(d, n)) /\ Cardinality(More(d, n)) = Cardinality({0})
      BY <2>2, <3>3, MoreCount
    <3> QED
      BY <2>1, <3>1, <3>2
  <2>7. /\ \A i \in Task : i # cur => InEdges(i)' = InEdges(i)
        /\ IsFiniteSet(Edges(dep_arg', cur))
        /\ Cardinality(Edges(dep_arg', cur))
             = Cardinality(InEdges(cur)) + Cardinality(More(dep_arg, n))
    BY <1>1, <1>2, <2>2, <2>5, <2>6, NewEdges
  <2> QED
    BY <1>5, <2>6, <2>7 DEF w
<1> QED
  BY <1>4, <1>5

(* An output adds a node for each reader since the last write, as many as  *)
(* n_war_args counts, and one for a last writer other than the task.       *)
LEMMA OutputNodes ==
  ASSUME Typed, FLASH_Queue_push_output, IsFiniteSet(InEdges(cur))
  PROVE  /\ \A i \in Task : i # cur => InEdges(i)' = InEdges(i)
         /\ IsFiniteSet(Edges(dep_arg', cur))
         /\ Cardinality(ReadNodes(OutBlock)) \in Nat
         /\ Cardinality(Edges(dep_arg', cur))
              = Cardinality(InEdges(cur)) + Cardinality(ReadNodes(OutBlock))
                  + IF write_task[OutBlock] \in {NULL, cur} THEN 0 ELSE 1
<1> DEFINE w == write_task[OutBlock]
           last(j) == j = w /\ w # cur
           cnt(j) == Cardinality(ReadNodesOf(OutBlock, j))
           n == [j \in Task |-> cnt(j) + IF last(j) THEN 1 ELSE 0]
           P == [j \in Task |-> ReadNodesOf(OutBlock, j) \cup IF last(j) THEN {0} ELSE {}]
           R == ReadNodes(OutBlock) \cup IF w \in {NULL, cur} THEN {} ELSE {0}
<1>1. cur \in Task /\ OutBlock \in Block
  BY OutputBlock DEF Typed
<1>2. /\ dep_arg \in [Task -> Seq(Task)] /\ dep_arg' \in [Task -> Seq(Task)] /\ Typed'
      /\ w \in Task \cup {NULL} /\ read_task[OutBlock] \in Seq(Task)
  BY <1>1, TypedOutput DEF Typed, TypeOK
<1>3. NULL \notin Task
  BY DEF NULL, Task
<1>4. Cardinality(ReadNodes(OutBlock)) \in Nat /\ \A j \in Task : cnt(j) \in Nat
  BY <1>1, ReaderNodesFinite DEF Typed
<1>5. ReadNodes(OutBlock) \subseteq 1..Len(read_task[OutBlock]) /\ Len(read_task[OutBlock]) \in Nat
  BY <1>2 DEF ReadNodes
<1>6. IsFiniteSet(ReadNodes(OutBlock)) /\ 0 \notin ReadNodes(OutBlock)
  <2>1. IsFiniteSet(1..Len(read_task[OutBlock]))
    BY <1>5, FS_Interval
  <2>2. IsFiniteSet(ReadNodes(OutBlock))
    BY <1>5, <2>1, FS_Subset
  <2> QED
    BY <1>5, <2>2
<1>7. ASSUME NEW j \in Task
      PROVE  /\ ReadNodesOf(OutBlock, j) \subseteq ReadNodes(OutBlock)
             /\ IsFiniteSet(ReadNodesOf(OutBlock, j)) /\ 0 \notin ReadNodesOf(OutBlock, j)
  <2>1. ReadNodesOf(OutBlock, j) \subseteq ReadNodes(OutBlock)
    BY DEF ReadNodesOf
  <2>2. IsFiniteSet(ReadNodesOf(OutBlock, j))
    BY <1>6, <2>1, FS_Subset
  <2> QED
    BY <1>6, <2>1, <2>2
<1>8. IsFiniteSet(R) /\ Cardinality(R) = Cardinality(ReadNodes(OutBlock))
                                           + IF w \in {NULL, cur} THEN 0 ELSE 1
  <2>1. CASE w \in {NULL, cur}
    <3>1. R = ReadNodes(OutBlock)
      BY <2>1
    <3> QED
      BY <1>4, <1>6, <2>1, <3>1
  <2>2. CASE w \notin {NULL, cur}
    <3>1. R = ReadNodes(OutBlock) \cup {0}
      BY <2>2
    <3>2. /\ IsFiniteSet(ReadNodes(OutBlock) \cup {0})
          /\ Cardinality(ReadNodes(OutBlock) \cup {0}) = Cardinality(ReadNodes(OutBlock)) + 1
      BY <1>6, FS_AddElement
    <3> QED
      BY <2>2, <3>1, <3>2
  <2> QED
    BY <2>1, <2>2
<1>9. ASSUME NEW j \in Task
      PROVE  P[j] \subseteq R /\ Cardinality(P[j]) = n[j]
  <2>1. CASE last(j)
    <3>1. w \notin {NULL, cur} /\ P[j] = ReadNodesOf(OutBlock, j) \cup {0} /\ n[j] = cnt(j) + 1
      BY <1>3, <2>1
    <3>2. Cardinality(ReadNodesOf(OutBlock, j) \cup {0}) = Cardinality(ReadNodesOf(OutBlock, j)) + 1
      BY <1>7, FS_AddElement
    <3> QED
      BY <1>7, <3>1, <3>2
  <2>2. CASE ~last(j)
    <3>1. P[j] = ReadNodesOf(OutBlock, j) /\ n[j] = cnt(j)
      BY <1>4, <2>2
    <3> QED
      BY <1>7, <3>1
  <2> QED
    BY <2>1, <2>2
<1>10. ASSUME NEW x \in R PROVE \E j \in Task : x \in P[j]
  <2>1. CASE x \in ReadNodes(OutBlock)
    <3>1. read_task[OutBlock][x] \in Task
      BY <1>2, <1>5, <2>1
    <3>2. x \in ReadNodesOf(OutBlock, read_task[OutBlock][x])
      BY <2>1 DEF ReadNodesOf
    <3> QED
      BY <3>1, <3>2
  <2>2. CASE w \notin {NULL, cur} /\ x = 0
    <3>1. w \in Task /\ last(w)
      BY <1>2, <2>2
    <3>2. x \in P[w]
      BY <2>2, <3>1
    <3> QED
      BY <3>1, <3>2
  <2> QED
    BY <2>1, <2>2
<1>11. ASSUME NEW i \in Task, NEW j \in Task, i # j PROVE P[i] \cap P[j] = {}
  <2>1. ReadNodesOf(OutBlock, i) \cap ReadNodesOf(OutBlock, j) = {}
    BY <1>11 DEF ReadNodesOf
  <2> QED
    BY <1>7, <1>11, <2>1
<1>12. n \in [Task -> Nat] /\ P \in [Task -> SUBSET R]
  <2>1. n \in [Task -> Nat]
    BY <1>4
  <2>2. P \in [Task -> SUBSET R]
    BY <1>9
  <2> QED
    BY <2>1, <2>2
<1>13. ASSUME NEW j \in Task
       PROVE  /\ Len(dep_arg'[j]) = Len(dep_arg[j]) + n[j]
              /\ \A m \in 1..Len(dep_arg[j]) : dep_arg'[j][m] = dep_arg[j][m]
              /\ \A m \in (Len(dep_arg[j]) + 1)..(Len(dep_arg[j]) + n[j]) : dep_arg'[j][m] = cur
  <2>1. PICK s \in Seq(Task) : s = dep_arg[j]
    BY <1>2
  <2>2. PICK a \in Nat : a = cnt(j)
    BY <1>4
  <2>3. PICK l \in Nat : l = Len(s)
    OBVIOUS
  <2>0. Flow \in [Task -> Seq(Task)]
    BY <1>1, <1>2 DEF Flow
  <2>4. PICK u \in Seq(Task) : u = Flow[j]
    BY <2>0
  <2>5. PICK b \in Nat : b = IF last(j) THEN 1 ELSE 0
    OBVIOUS
  <2>6. /\ Len(u) = l + b
        /\ \A m \in 1..l : u[m] = s[m]
        /\ \A m \in (l + 1)..(l + b) : u[m] = cur
    <3>1. CASE last(j)
      <4>1. u = Append(s, cur) /\ b = 1
        BY <1>1, <1>2, <1>3, <2>1, <2>4, <2>5, <3>1 DEF Flow
      <4>2. /\ Len(Append(s, cur)) = Len(s) + 1
            /\ \A m \in 1..Len(s) : Append(s, cur)[m] = s[m]
            /\ Append(s, cur)[Len(s) + 1] = cur
        BY <1>1
      <4>3. \A m \in (l + 1)..(l + 1) : m = l + 1
        OBVIOUS
      <4> QED
        BY <2>3, <4>1, <4>2, <4>3
    <3>2. CASE ~last(j)
      <4>1. u = s /\ b = 0
        BY <1>1, <1>2, <1>3, <2>1, <2>4, <2>5, <3>2 DEF Flow
      <4> QED
        BY <2>3, <4>1
    <3> QED
      BY <3>1, <3>2
  <2>7. dep_arg'[j] = u \o [k \in 1..a |-> cur]
    BY OutputEffect, <2>2, <2>4
  <2>8. /\ Len(dep_arg'[j]) = Len(u) + a
        /\ \A m \in 1..Len(u) : dep_arg'[j][m] = u[m]
        /\ \A m \in (Len(u) + 1)..(Len(u) + a) : dep_arg'[j][m] = cur
    BY <1>1, <2>7, AppendCopies
  <2>9. n[j] = a + b
    BY <2>2, <2>5
  <2> HIDE DEF n
  <2>10. Len(dep_arg'[j]) = l + n[j]
    BY <2>6, <2>8, <2>9
  <2>11. ASSUME NEW m \in 1..l PROVE dep_arg'[j][m] = s[m]
    <3>1. m \in 1..Len(u)
      BY <2>6
    <3> QED
      BY <2>6, <2>8, <3>1
  <2>12. ASSUME NEW m \in (l + 1)..(l + n[j]) PROVE dep_arg'[j][m] = cur
    <3>1. (m \in (l + 1)..(l + b) /\ m \in 1..Len(u)) \/ m \in (Len(u) + 1)..(Len(u) + a)
      BY <2>6, <2>9
    <3> QED
      BY <2>6, <2>8, <3>1
  <2> QED
    BY <2>1, <2>3, <2>10, <2>11, <2>12
<1>14. \A j \in Task : Cardinality(P[j]) = n[j]
  BY <1>9
<1> HIDE DEF n, P, R
<1>15. Grown(dep_arg, dep_arg', n, cur)
  BY <1>13 DEF Grown
<1>16. IsFiniteSet(More(dep_arg, n)) /\ Cardinality(More(dep_arg, n)) = Cardinality(R)
  <2>1. PICK d \in [Task -> Seq(Task)] : d = dep_arg
    BY <1>2
  <2>3. Parts(P, R, n)
    BY <1>8, <1>10, <1>11, <1>12, <1>14 DEF Parts
  <2>2. IsFiniteSet(More(d, n)) /\ Cardinality(More(d, n)) = Cardinality(R)
    BY <1>12, <2>3, MoreCount
  <2> QED
    BY <2>1, <2>2
<1>17. /\ \A i \in Task : i # cur => InEdges(i)' = InEdges(i)
       /\ IsFiniteSet(Edges(dep_arg', cur))
       /\ Cardinality(Edges(dep_arg', cur))
            = Cardinality(InEdges(cur)) + Cardinality(More(dep_arg, n))
  BY <1>1, <1>2, <1>12, <1>15, <1>16, NewEdges
<1>18. Cardinality(InEdges(cur)) \in Nat
  BY FS_CardinalityType
<1> QED
  BY <1>4, <1>8, <1>16, <1>17, <1>18



(* What the partial counts say.  The current task has an edge for every    *)
(* operand analysed so far that has a predecessor, and one for each reader *)
(* before it; the tasks behind it have none yet.                           *)
Operands(i) == Len(op[i].in) + Len(op[i].out)
InQueue(i) == i \in 1..n_tasks
InPush(i) == pushing /\ i = cur

Degree(i) ==
  /\ IsFiniteSet(InEdges(i))
  /\ InQueue(i) \/ InPush(i) => n_macro_args[i] = ExtraBlocks(op[i])
  /\ InQueue(i) => n_ready[i] + Operands(i) + n_war_args[i] = Cardinality(InEdges(i))
  /\ InPush(i) => n_ready[i] + i_in + i_out + n_war_args[i] = Cardinality(InEdges(i))
  /\ ~InQueue(i) /\ ~InPush(i) => n_ready[i] = 0 /\ n_war_args[i] = 0 /\ InEdges(i) = {}

Degrees == \A i \in Task : Degree(i)

LEMMA DegreesInput ==
  ASSUME Typed, Degrees, FLASH_Queue_push_input
  PROVE  Degrees'
<1>1. cur \in Task /\ InBlock \in Block
  BY InputBlock DEF Typed
<1>2. /\ pushing /\ pushing' = pushing /\ i_in' = i_in + 1 /\ i_out' = i_out /\ n_tasks' = n_tasks
      /\ op' = op /\ n_macro_args' = n_macro_args /\ n_war_args' = n_war_args
      /\ n_ready' = IF write_task[InBlock] = NULL THEN [n_ready EXCEPT ![cur] = @ - 1] ELSE n_ready
  BY InputEffect
<1>3. /\ n_tasks \in Nat /\ i_in \in Nat /\ i_out \in Nat /\ n_ready \in [Task -> Int]
      /\ n_war_args \in [Task -> Nat]
  BY DEF Typed, TypeOK
<1>4. cur' = cur /\ ~InQueue(cur) /\ InPush(cur)
  BY <1>2, <1>3 DEF cur, InQueue, InPush
<1>5. IsFiniteSet(InEdges(cur)) /\ Degree(cur)
  BY <1>1 DEF Degrees, Degree
<1>6. /\ \A i \in Task : i # cur => InEdges(i)' = InEdges(i)
      /\ IsFiniteSet(Edges(dep_arg', cur))
      /\ Cardinality(Edges(dep_arg', cur))
           = Cardinality(InEdges(cur)) + IF write_task[InBlock] = NULL THEN 0 ELSE 1
  BY <1>5, InputNodes
<1>7. ASSUME NEW i \in Task, i # cur PROVE Degree(i)'
  <2>1. n_ready'[i] = n_ready[i] /\ (InQueue(i)' <=> InQueue(i)) /\ (InPush(i)' <=> InPush(i))
    BY <1>2, <1>3, <1>4, <1>7 DEF InQueue, InPush
  <2>2. ~InPush(i)
    BY <1>7 DEF InPush
  <2>3. Operands(i)' = Operands(i) /\ InEdges(i)' = InEdges(i) /\ Degree(i)
    BY <1>2, <1>6, <1>7 DEF Operands, Degrees
  <2> QED
    BY <1>2, <2>1, <2>2, <2>3 DEF Degree, ExtraBlocks
<1>8. Degree(cur)'
  <2>1. InEdges(cur)' = Edges(dep_arg', cur)
    BY <1>4 DEF InEdges, Nodes, Edges
  <2>2. InPush(cur)' /\ ~InQueue(cur)'
    BY <1>2, <1>4 DEF InPush, InQueue
  <2>3. n_macro_args'[cur] = ExtraBlocks(op'[cur])
    BY <1>2, <1>4, <1>5 DEF Degree
  <2>4. n_ready'[cur] + i_in' + i_out' + n_war_args'[cur] = Cardinality(Edges(dep_arg', cur))
    <3>1. n_ready[cur] + i_in + i_out + n_war_args[cur] = Cardinality(InEdges(cur))
      BY <1>4, <1>5 DEF Degree
    <3>2. n_ready'[cur] = IF write_task[InBlock] = NULL THEN n_ready[cur] - 1 ELSE n_ready[cur]
      BY <1>1, <1>2, <1>3
    <3>3. n_ready[cur] \in Int /\ n_war_args[cur] \in Nat /\ n_war_args'[cur] = n_war_args[cur]
      BY <1>1, <1>2, <1>3
    <3> QED
      BY <1>2, <1>3, <1>6, <3>1, <3>2, <3>3
  <2> QED
    BY <1>4, <1>6, <2>1, <2>2, <2>3, <2>4 DEF Degree
<1>9. ASSUME NEW i \in Task PROVE Degree(i)'
  BY <1>4, <1>7, <1>8
<1> QED
  BY <1>9 DEF Degrees

LEMMA DegreesOutput ==
  ASSUME Typed, Degrees, FLASH_Queue_push_output
  PROVE  Degrees'
<1> DEFINE w == write_task[OutBlock]
<1>1. cur \in Task /\ OutBlock \in Block
  BY OutputBlock DEF Typed
<1>2. /\ pushing /\ pushing' = pushing /\ i_in' = i_in /\ i_out' = i_out + 1 /\ n_tasks' = n_tasks
      /\ op' = op /\ n_macro_args' = n_macro_args
      /\ n_war_args' = [n_war_args EXCEPT ![cur] = @ + Cardinality(ReadNodes(OutBlock))]
      /\ n_ready' = IF w \in {NULL, cur} THEN [n_ready EXCEPT ![cur] = @ - 1] ELSE n_ready
  BY OutputEffect DEF NoWriterBefore
<1>3. /\ n_tasks \in Nat /\ i_in \in Nat /\ i_out \in Nat /\ n_ready \in [Task -> Int]
      /\ n_war_args \in [Task -> Nat]
  BY DEF Typed, TypeOK
<1>4. cur' = cur /\ ~InQueue(cur) /\ InPush(cur)
  BY <1>2, <1>3 DEF cur, InQueue, InPush
<1>5. IsFiniteSet(InEdges(cur)) /\ Degree(cur)
  BY <1>1 DEF Degrees, Degree
<1>6. /\ \A i \in Task : i # cur => InEdges(i)' = InEdges(i)
      /\ IsFiniteSet(Edges(dep_arg', cur))
      /\ Cardinality(ReadNodes(OutBlock)) \in Nat
      /\ Cardinality(Edges(dep_arg', cur))
           = Cardinality(InEdges(cur)) + Cardinality(ReadNodes(OutBlock))
               + IF w \in {NULL, cur} THEN 0 ELSE 1
  BY <1>5, OutputNodes
<1>7. ASSUME NEW i \in Task, i # cur PROVE Degree(i)'
  <2>1. /\ n_ready'[i] = n_ready[i] /\ n_war_args'[i] = n_war_args[i]
        /\ (InQueue(i)' <=> InQueue(i)) /\ (InPush(i)' <=> InPush(i))
    BY <1>2, <1>3, <1>4, <1>7 DEF InQueue, InPush
  <2>2. ~InPush(i)
    BY <1>7 DEF InPush
  <2>3. Operands(i)' = Operands(i) /\ InEdges(i)' = InEdges(i) /\ Degree(i)
    BY <1>2, <1>6, <1>7 DEF Operands, Degrees
  <2> QED
    BY <1>2, <2>1, <2>2, <2>3 DEF Degree, ExtraBlocks
<1>8. Degree(cur)'
  <2>1. InEdges(cur)' = Edges(dep_arg', cur)
    BY <1>4 DEF InEdges, Nodes, Edges
  <2>2. InPush(cur)' /\ ~InQueue(cur)'
    BY <1>2, <1>4 DEF InPush, InQueue
  <2>3. n_macro_args'[cur] = ExtraBlocks(op'[cur])
    BY <1>2, <1>4, <1>5 DEF Degree
  <2>4. n_ready'[cur] + i_in' + i_out' + n_war_args'[cur] = Cardinality(Edges(dep_arg', cur))
    <3>1. n_ready[cur] + i_in + i_out + n_war_args[cur] = Cardinality(InEdges(cur))
      BY <1>4, <1>5 DEF Degree
    <3>2. n_ready'[cur] = IF w \in {NULL, cur} THEN n_ready[cur] - 1 ELSE n_ready[cur]
      BY <1>1, <1>2, <1>3
    <3>3. /\ n_ready[cur] \in Int /\ n_war_args[cur] \in Nat
          /\ n_war_args'[cur] = n_war_args[cur] + Cardinality(ReadNodes(OutBlock))
      BY <1>1, <1>2, <1>3
    <3> QED
      BY <1>2, <1>3, <1>6, <3>1, <3>2, <3>3
  <2> QED
    BY <1>4, <1>6, <2>1, <2>2, <2>3, <2>4 DEF Degree
<1>9. ASSUME NEW i \in Task PROVE Degree(i)'
  BY <1>4, <1>7, <1>8
<1> QED
  BY <1>9 DEF Degrees

LEMMA DegreesNext ==
  ASSUME Typed, Degrees, [Next]_vars
  PROVE  Degrees'
<1>0. n_tasks \in Nat
  BY DEF Typed, TypeOK
<1>1. ASSUME UNCHANGED <<n_tasks, op, taskVars, pushVars>> PROVE Degrees'
  <2>1. /\ n_tasks' = n_tasks /\ op' = op /\ n_ready' = n_ready /\ n_war_args' = n_war_args
        /\ n_macro_args' = n_macro_args /\ dep_arg' = dep_arg
        /\ pushing' = pushing /\ i_in' = i_in /\ i_out' = i_out
    BY <1>1 DEF taskVars, pushVars
  <2>2. ASSUME NEW i \in Task PROVE Degree(i)'
    <3>1. InEdges(i)' = InEdges(i) /\ Degree(i)
      BY <2>1 DEF InEdges, Nodes, Degrees
    <3>2. (InQueue(i)' <=> InQueue(i)) /\ (InPush(i)' <=> InPush(i))
      BY <2>1 DEF InQueue, InPush, cur
    <3>3. Operands(i)' = Operands(i) /\ ExtraBlocks(op'[i]) = ExtraBlocks(op[i])
      BY <2>1 DEF Operands
    <3> QED
      BY <2>1, <3>1, <3>2, <3>3 DEF Degree
  <2> QED
    BY <2>2 DEF Degrees
<1>2. CASE FLASH_Queue_init
  <2>1. n_tasks = 0
    BY <1>2 DEF FLASH_Queue_init, Typed, TypeOK, InRegion
  <2> QED
    BY <1>1, <1>2, <2>1 DEF FLASH_Queue_init, FLASH_Queue_reset
<1>3. CASE FLASH_Queue_finalize \/ FLASH_Queue_begin \/ FLASH_Queue_enable \/ FLASH_Queue_disable
  BY <1>1, <1>3 DEF FLASH_Queue_finalize, FLASH_Queue_begin, FLASH_Queue_enable, FLASH_Queue_disable
<1>4. CASE UNCHANGED vars
  BY <1>1, <1>4 DEF vars
<1>5. CASE FLASH_Queue_end
  <2>1. CASE stack = 1 /\ n_tasks # 0
    <3>1. /\ n_tasks' = 0 /\ ~pushing'
          /\ dep_arg' = [i \in Task |-> <<>>]
          /\ n_ready' = [i \in Task |-> 0] /\ n_war_args' = [i \in Task |-> 0]
      BY <1>5, <2>1 DEF FLASH_Queue_end, FLASH_Queue_exec, FLASH_Queue_reset, pushVars
    <3>2. ASSUME NEW i \in Task PROVE Degree(i)'
      <4>1. ~InQueue(i)' /\ ~InPush(i)'
        BY <3>1 DEF InQueue, InPush
      <4>2. InEdges(i)' = {}
        BY <3>1 DEF InEdges, Nodes
      <4> QED
        BY <3>1, <4>1, <4>2, FS_EmptySet DEF Degree
    <3> QED
      BY <3>2 DEF Degrees
  <2>2. CASE ~(stack = 1 /\ n_tasks # 0)
    BY <1>1, <1>5, <2>2 DEF FLASH_Queue_end, FLASH_Queue_exec
  <2> QED
    BY <2>1, <2>2
<1>6. ASSUME NEW o \in Op, FLASH_Task_alloc(o) PROVE Degrees'
  <2>1. /\ ~pushing /\ pushing' /\ n_tasks' = n_tasks /\ i_in' = 0 /\ i_out' = 0
        /\ op' = [op EXCEPT ![cur] = o]
        /\ n_macro_args' = [n_macro_args EXCEPT ![cur] = ExtraBlocks(o)]
        /\ UNCHANGED <<n_ready, n_war_args, dep_arg>>
    BY <1>6 DEF FLASH_Task_alloc
  <2>2. op \in [Task -> OpType] /\ n_macro_args \in [Task -> Nat]
    BY DEF Typed, TypeOK
  <2>3. cur' = cur /\ ~InQueue(cur)
    BY <1>0, <2>1 DEF cur, InQueue
  <2>4. ASSUME NEW i \in Task PROVE Degree(i)'
    <3>1. InEdges(i)' = InEdges(i) /\ Degree(i)
      BY <2>1 DEF InEdges, Nodes, Degrees
    <3>2. (InQueue(i)' <=> InQueue(i)) /\ ~InPush(i)
      BY <2>1 DEF InQueue, InPush
    <3>3. CASE i = cur
      <4>1. n_ready[i] = 0 /\ n_war_args[i] = 0 /\ InEdges(i) = {} /\ IsFiniteSet(InEdges(i))
        BY <2>3, <3>1, <3>2, <3>3 DEF Degree
      <4>2. n_macro_args'[i] = ExtraBlocks(o) /\ op'[i] = o
        BY <2>1, <2>2, <3>3
      <4>3. Cardinality(InEdges(i)) = 0
        BY <4>1, FS_EmptySet
      <4> QED
        BY <2>1, <2>3, <3>1, <3>2, <3>3, <4>1, <4>2, <4>3 DEF Degree, InPush
    <3>4. CASE i # cur
      <4>1. n_macro_args'[i] = n_macro_args[i] /\ op'[i] = op[i] /\ ~InPush(i)'
        BY <2>1, <2>2, <2>3, <3>4 DEF InPush
      <4>2. Operands(i)' = Operands(i)
        BY <4>1 DEF Operands
      <4> QED
        BY <2>1, <3>1, <3>2, <4>1, <4>2 DEF Degree
    <3> QED
      BY <3>3, <3>4
  <2> QED
    BY <2>4 DEF Degrees
<1>7. CASE FLASH_Queue_push_tail
  <2>1. /\ pushing /\ i_in = Len(op[cur].in) /\ i_out = Len(op[cur].out)
        /\ ~pushing' /\ n_tasks' = n_tasks + 1
        /\ UNCHANGED <<op, n_ready, n_macro_args, n_war_args, dep_arg>>
    BY <1>7 DEF FLASH_Queue_push_tail, taskVars
  <2>2. ASSUME NEW i \in Task PROVE Degree(i)'
    <3>1. /\ InEdges(i)' = InEdges(i) /\ Degree(i) /\ Operands(i)' = Operands(i)
          /\ ExtraBlocks(op'[i]) = ExtraBlocks(op[i])
      BY <2>1 DEF InEdges, Nodes, Degrees, Operands
    <3>2. (InQueue(i)' <=> InQueue(i) \/ InPush(i)) /\ ~InPush(i)'
      BY <1>0, <2>1 DEF InQueue, InPush, cur
    <3>3. CASE InPush(i)
      <4>1. i_in + i_out = Operands(i) /\ i_in \in Nat /\ i_out \in Nat
        BY <2>1, <3>3 DEF InPush, Operands, Typed, TypeOK
      <4>2. n_ready[i] \in Int /\ n_war_args[i] \in Nat
        BY DEF Typed, TypeOK
      <4>3. n_ready[i] + i_in + i_out + n_war_args[i] = Cardinality(InEdges(i))
        BY <3>1, <3>3 DEF Degree
      <4>4. n_ready[i] + Operands(i) + n_war_args[i] = Cardinality(InEdges(i))
        BY <4>1, <4>2, <4>3
      <4> QED
        BY <2>1, <3>1, <3>2, <3>3, <4>4 DEF Degree
    <3>4. CASE ~InPush(i)
      BY <2>1, <3>1, <3>2, <3>4 DEF Degree
    <3> QED
      BY <3>3, <3>4
  <2> QED
    BY <2>2 DEF Degrees
<1> QED
  BY <1>2, <1>3, <1>4, <1>5, <1>6, <1>7, DegreesInput, DegreesOutput DEF Next

(* FLASH_Queue_init_tasks computes for every task the number of the        *)
(* notifications it will get, for every sequence of pushes: also with an   *)
(* operand that occurs twice, is read and written, or is a macroblock.     *)
THEOREM CountIsInDegree == Spec => []NReadyIsInDegree
<1>1. Init => Degrees
  <2> SUFFICES ASSUME Init, NEW i \in Task PROVE Degree(i)
    BY DEF Degrees
  <2>1. ~InQueue(i) /\ ~InPush(i) /\ n_ready[i] = 0 /\ n_war_args[i] = 0
    BY DEF Init, InQueue, InPush
  <2>2. InEdges(i) = {}
    BY DEF Init, InEdges, Nodes
  <2> QED
    BY <2>1, <2>2, FS_EmptySet DEF Degree
<1>2. Typed /\ Degrees /\ [Next]_vars => Degrees'
  BY DegreesNext
<1>3. Typed /\ Degrees => NReadyIsInDegree
  <2> SUFFICES ASSUME Typed, Degrees, NEW i \in 1..n_tasks
               PROVE  n_ready[i] + op[i].n_in + op[i].n_out + n_macro_args[i] + n_war_args[i]
                        = Cardinality(InEdges(i))
    BY DEF NReadyIsInDegree
  <2>1. i \in Task
    BY BoundsAssumption DEF Typed, TypeOK, Task
  <2>2. op[i] \in OpType /\ n_ready[i] \in Int /\ n_war_args[i] \in Nat
    BY <2>1 DEF Typed, TypeOK
  <2>3. /\ Len(op[i].in) \in Nat /\ Len(op[i].out) \in Nat
        /\ op[i].n_in \in Nat /\ op[i].n_out \in Nat
    BY <2>2 DEF OpType
  <2>4. /\ n_macro_args[i] = (Len(op[i].in) - op[i].n_in) + (Len(op[i].out) - op[i].n_out)
        /\ n_ready[i] + (Len(op[i].in) + Len(op[i].out)) + n_war_args[i] = Cardinality(InEdges(i))
    BY <2>1 DEF Degrees, Degree, InQueue, Operands, ExtraBlocks
  <2>5. PICK a \in Nat, b \in Nat, c \in Nat, d \in Nat :
             /\ a = Len(op[i].in) /\ b = Len(op[i].out)
             /\ c = op[i].n_in /\ d = op[i].n_out
    BY <2>3
  <2>6. PICK x \in Int, y \in Nat : x = n_ready[i] /\ y = n_war_args[i]
    BY <2>2
  <2>7. /\ n_macro_args[i] = (a - c) + (b - d)
        /\ x + (a + b) + y = Cardinality(InEdges(i))
    BY <2>4, <2>5, <2>6
  <2>8. x + c + d + ((a - c) + (b - d)) + y = x + (a + b) + y
    OBVIOUS
  <2> QED
    BY <2>5, <2>6, <2>7, <2>8
<1> QED
  BY Invariance, <1>1, <1>2, <1>3, PTL DEF Spec


=============================================================================
