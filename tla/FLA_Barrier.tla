---------------------------- MODULE FLA_Barrier ----------------------------
(***************************************************************************)
(* FLA_BARRIER_WAIT, the spin barrier with which the threads of one        *)
(* parallel region (dlabrd_var1.c) separate the steps of a factorisation   *)
(* (src/base/flamec/include/FLA_Threads.h).                                *)
(*                                                                         *)
(* Each atomic load, store and fetch-and-add of the macro is one step.  A  *)
(* spin loop is a step that is enabled once its condition has changed.     *)
(* The atomics are acquire loads and release stores to which every thread  *)
(* agrees on an order, so a step reads what was last written.              *)
(***************************************************************************)
EXTENDS Integers, FiniteSets

CONSTANTS
  NThreads,   \* total_threads: the threads of the team
  MaxRounds   \* bound: how often each thread waits at the barrier

Thread == 0..(NThreads - 1)

ASSUME NThreadsAssumption == NThreads \in Nat /\ NThreads > 0
ASSUME MaxRoundsAssumption == MaxRounds \in Nat

VARIABLES
  wait_count, release_flag, sense,   \* the barrier's fields
  pc, local_sense,                   \* each thread's place and snapshot
  passed                             \* history: how often it has passed

vars == <<wait_count, release_flag, sense, pc, local_sense, passed>>

-----------------------------------------------------------------------------
Goto(i, label) == pc' = [pc EXCEPT ![i] = label]

(* FLA_BARRIER_INIT, before the team starts to use the barrier.            *)
Init ==
  /\ wait_count = 0 /\ release_flag = 0 /\ sense = 0
  /\ pc = [i \in Thread |-> "outside"]
  /\ local_sense = [i \in Thread |-> 0]
  /\ passed = [i \in Thread |-> 0]

(* A thread calls FLA_BARRIER_WAIT and takes its snapshot of sense.        *)
Enter(i) ==
  /\ pc[i] = "outside" /\ passed[i] < MaxRounds
  /\ local_sense' = [local_sense EXCEPT ![i] = sense]
  /\ Goto(i, "sync")
  /\ UNCHANGED <<wait_count, release_flag, sense, passed>>

(* It waits until the previous round is over.                              *)
Sync(i) ==
  /\ pc[i] = "sync" /\ release_flag = local_sense[i]
  /\ Goto(i, "arrive")
  /\ UNCHANGED <<wait_count, release_flag, sense, local_sense, passed>>

\* Mutant: the last but one arrival opens the gate.
IsLastButOne(n) == n = NThreads - 2

IsLast(n) == n = NThreads - 1

(* The fetch-and-add on wait_count tells the last thread to arrive.        *)
Arrive(i) ==
  /\ pc[i] = "arrive"
  /\ wait_count' = wait_count + 1
  /\ Goto(i, IF IsLast(wait_count) THEN "reset" ELSE "wait")
  /\ UNCHANGED <<release_flag, sense, local_sense, passed>>

\* Mutant: the counter is reset only after the gate has been opened.
ResetLate(i) ==
  /\ pc[i] = "reset"
  /\ IF release_flag = local_sense[i]
     THEN release_flag' = local_sense[i] + 1 /\ UNCHANGED <<pc, wait_count>>
     ELSE wait_count' = 0 /\ Goto(i, "publish") /\ UNCHANGED release_flag
  /\ UNCHANGED <<sense, local_sense, passed>>

(* The last thread resets the counter for the next round, ...              *)
Reset(i) ==
  /\ pc[i] = "reset"
  /\ wait_count' = 0
  /\ Goto(i, "publish")
  /\ UNCHANGED <<release_flag, sense, local_sense, passed>>

(* ... starts the next round, ...                                          *)
Publish(i) ==
  /\ pc[i] = "publish"
  /\ sense' = local_sense[i] + 1
  /\ Goto(i, "release")
  /\ UNCHANGED <<wait_count, release_flag, local_sense, passed>>

(* Thread i leaves the barrier.                                            *)
Leave(i) ==
  /\ passed' = [passed EXCEPT ![i] = @ + 1]
  /\ Goto(i, "outside")

(* ... and opens the gate.                                                 *)
Release(i) ==
  /\ pc[i] = "release"
  /\ release_flag' = local_sense[i] + 1
  /\ Leave(i)
  /\ UNCHANGED <<wait_count, sense, local_sense>>

(* The others wait for the gate of their round.                            *)
Wait(i) ==
  /\ pc[i] = "wait" /\ release_flag = local_sense[i] + 1
  /\ Leave(i)
  /\ UNCHANGED <<wait_count, release_flag, sense, local_sense>>

Step(i) == Enter(i) \/ Sync(i) \/ Arrive(i) \/ Reset(i) \/ Publish(i) \/ Release(i) \/ Wait(i)

Done == \A i \in Thread : pc[i] = "outside" /\ passed[i] = MaxRounds

Next == (\E i \in Thread : Step(i)) \/ (Done /\ UNCHANGED vars)

Spec == Init /\ [][Next]_vars

-----------------------------------------------------------------------------
(* Properties.                                                             *)

Label == {"outside", "sync", "arrive", "wait", "reset", "publish", "release"}

TypeOK ==
  /\ wait_count \in 0..NThreads /\ release_flag \in Nat /\ sense \in Nat
  /\ pc \in [Thread -> Label]
  /\ local_sense \in [Thread -> Nat] /\ passed \in [Thread -> Nat]

(* A thread leaves the barrier only when every thread of the team has      *)
(* entered it as often: what the team did before the barrier is complete.  *)
NoneLeavesEarly ==
  \A i, j \in Thread :
    passed[i] <= passed[j] + IF pc[j] = "outside" THEN 0 ELSE 1

(* The reset of the counter forgets no arrival of the next round: the      *)
(* gate is closed while the last thread resets it.                         *)
NoArrivalLost ==
  [][wait_count' < wait_count =>
       /\ wait_count = NThreads
       /\ \A i \in Thread : pc[i] \in {"wait", "reset"} /\ local_sense[i] = release_flag]_vars

=============================================================================
