------------------------ MODULE MC_FLASH_Queue_exec ------------------------
(* Small instances of FLASH_Queue_exec: two graphs as FLASH_Queue builds   *)
(* them, over the blocks of a 2 x 2 matrix.                                *)
EXTENDS FLASH_Queue_exec

CONSTANTS A, B, C, D

MCBlock == {A, B, C, D}
MIndex == [b \in MCBlock |-> IF b \in {A, C} THEN 0 ELSE 1]
NIndex == [b \in MCBlock |-> IF b \in {A, B} THEN 0 ELSE 1]
ReadId == [b \in MCBlock |-> CASE b = A -> 0 [] b = B -> 1 [] b = C -> 2 [] b = D -> 3]
Blocks(a, b, c, d) == [x \in MCBlock |-> CASE x = A -> a [] x = B -> b [] x = C -> c [] x = D -> d]

(* write A; read A write B; read A write C; read B, C write A: flow, anti- *)
(* and output dependences, two nodes from one task to another.             *)
Diamond ==
  [n_tasks |-> 4, dep_arg |-> <<<<2, 3, 4>>, <<4, 4>>, <<4, 4>>, <<>>>>,
   n_ready |-> <<0, 1, 1, 5>>, in |-> <<<<>>, <<A>>, <<A>>, <<B, C>>>>,
   out |-> <<<<A>>, <<B>>, <<C>>, <<A>>>>, queue |-> <<0, 1, 2, 0>>,
   frees |-> <<FALSE, FALSE, FALSE, FALSE>>, read_id |-> ReadId,
   m_index |-> MIndex, n_index |-> NIndex,
   write_task |-> Blocks(4, 2, 3, NULL), read_task |-> Blocks(<<>>, <<4>>, <<4>>, <<>>)]

(* write A; read A write B; read A write C; free D: readers of one block   *)
(* that race to free its list, a task that is ready from the start.        *)
Fork ==
  [n_tasks |-> 4, dep_arg |-> <<<<2, 3>>, <<>>, <<>>, <<>>>>,
   n_ready |-> <<0, 1, 1, 0>>, in |-> <<<<>>, <<A>>, <<A>>, <<>>>>,
   out |-> <<<<A>>, <<B>>, <<C>>, <<D>>>>, queue |-> <<0, 1, 2, 3>>,
   frees |-> <<FALSE, FALSE, FALSE, TRUE>>, read_id |-> ReadId,
   m_index |-> MIndex, n_index |-> NIndex,
   write_task |-> Blocks(1, 2, 3, 4), read_task |-> Blocks(<<2, 3>>, <<>>, <<>>, <<>>)]

(* write A; write D; write B; read A, B write C: a task with two           *)
(* predecessors, and one that others take from a queue meanwhile.          *)
Join ==
  [n_tasks |-> 4, dep_arg |-> <<<<4>>, <<>>, <<4>>, <<>>>>,
   n_ready |-> <<0, 0, 0, 2>>, in |-> <<<<>>, <<>>, <<>>, <<A, B>>>>,
   out |-> <<<<A>>, <<D>>, <<B>>, <<C>>>>, queue |-> <<0, 1, 2, 3>>,
   frees |-> <<FALSE, FALSE, FALSE, FALSE>>, read_id |-> ReadId,
   m_index |-> MIndex, n_index |-> NIndex,
   write_task |-> Blocks(1, 3, 4, 2), read_task |-> Blocks(<<4>>, <<4>>, <<>>, <<>>)]

User(cpq, cache, steal, sort, aff) ==
  [cores_per_queue |-> cpq, caching |-> cache, work_stealing |-> steal,
   sorting |-> sort, data_affinity |-> aff]

Plain   == {User(0, FALSE, FALSE, s, a) : s \in BOOLEAN, a \in {"NONE", "2D"}}
Cached  == {User(0, TRUE, FALSE, s, "NONE") : s \in BOOLEAN}
              \cup {User(1, TRUE, FALSE, FALSE, "1D_ROW")}
Stolen  == {User(0, FALSE, TRUE, TRUE, "NONE"), User(1, TRUE, TRUE, FALSE, "ROUND_ROBIN"),
            User(1, TRUE, TRUE, FALSE, "NONE")}

(* With work stealing only the graph in which no task has two predecessors *)
(* that race to choose its queue.                                          *)
MCExecution ==
  [graph : {Diamond, Fork}, setting : Plain \cup Cached] \cup [graph : {Fork}, setting : Stolen]

(* A task with two predecessors, and work stealing.                        *)
StolenDiamond == [graph : {Diamond}, setting : Stolen]
StolenJoin == [graph : {Join}, setting : {User(0, FALSE, TRUE, FALSE, "NONE")}]
=============================================================================
