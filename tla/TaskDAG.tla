------------------------------ MODULE TaskDAG ------------------------------
(***************************************************************************)
(* What a parallel region promises its caller: the tasks' computation is   *)
(* overlapped in whatever order the scheduler sees fit, while observing    *)
(* the dependences between tasks, every task runs exactly once, and the    *)
(* region ends when all of them have run (the notes on FLASH_Queue_begin   *)
(* and FLASH_Queue_end in docs/libflame/40-user-api.tex).                  *)
(***************************************************************************)
EXTENDS Naturals

CONSTANT Task
VARIABLES
  tasks,   \* the tasks of the region
  pred,    \* pred[i]: the tasks that task i depends on
  state,   \* state[i]: "waiting", "running" or "done"
  ended    \* a worker has left the region

dagVars == <<tasks, pred, state, ended>>

Init ==
  /\ tasks \in SUBSET Task
  /\ pred \in [Task -> SUBSET tasks]
  /\ state = [i \in Task |-> "waiting"]
  /\ ended = FALSE

Start(i) ==
  /\ state[i] = "waiting"
  /\ \A j \in pred[i] : state[j] = "done"
  /\ state' = [state EXCEPT ![i] = "running"]
  /\ UNCHANGED <<tasks, pred, ended>>

Finish(i) ==
  /\ state[i] = "running"
  /\ state' = [state EXCEPT ![i] = "done"]
  /\ UNCHANGED <<tasks, pred, ended>>

End ==
  /\ \A i \in tasks : state[i] = "done"
  /\ ended' = TRUE
  /\ UNCHANGED <<tasks, pred, state>>

Next == End \/ \E i \in tasks : Start(i) \/ Finish(i)

Spec == Init /\ [][Next]_dagVars

=============================================================================
