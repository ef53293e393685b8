------------------------------ MODULE FLA_Team ------------------------------
(***************************************************************************)
(* The threads of a team compute their parts of a range, each for itself,  *)
(* and work on them without further coordination, as the multithreaded     *)
(* kernels of src/lapack and src/map do.                                   *)
(***************************************************************************)
EXTENDS FLA_Threads, FiniteSets

CONSTANTS
  MaxThreads,  \* bound: threads of a team
  MaxRange,    \* bound: elements to divide
  ElemSize     \* the sizes of an element, in bytes

ASSUME TeamAssumption ==
  MaxThreads \in Nat /\ MaxThreads > 0 /\ MaxRange \in Nat /\ ElemSize \in SUBSET Nat

VARIABLES
  team_size, range, elem_size,
  chunks,    \* whether the team divides its range into cache lines
  part       \* each thread's part, or None

team == <<team_size, range, elem_size, chunks, part>>

None == [index |-> 0, sub_range |-> -1]

TeamInit ==
  /\ team_size \in 1..MaxThreads /\ range \in 0..MaxRange
  /\ elem_size \in ElemSize /\ chunks \in BOOLEAN
  /\ part = [i \in 0..(team_size - 1) |-> None]

Member == 0..(team_size - 1)

Divide(i) ==
  /\ part[i] = None
  /\ part' = [part EXCEPT ![i] =
       IF chunks THEN FLA_Thread_get_subrange_chunks(i, team_size, elem_size, range)
       ELSE FLA_Thread_get_subrange(i, team_size, range)]
  /\ UNCHANGED <<team_size, range, elem_size, chunks>>

Divided == \A i \in Member : part[i] # None

TeamNext == (\E i \in Member : Divide(i)) \/ (Divided /\ UNCHANGED team)

TeamSpec == TeamInit /\ [][TeamNext]_team

-----------------------------------------------------------------------------
(* Properties.                                                             *)

Elements(p) == p.index..(p.index + p.sub_range - 1)

TeamTypeOK ==
  /\ team_size \in 1..MaxThreads /\ range \in 0..MaxRange
  /\ elem_size \in ElemSize /\ chunks \in BOOLEAN
  /\ \A i \in Member :
       part[i] = None \/ (part[i].index \in 0..MaxRange /\ part[i].sub_range \in 0..MaxRange)

(* Whatever the sizes, the parts of two threads have no element in common, *)
(* and every element of the range is in the part of some thread.           *)
Partition ==
  /\ \A i, j \in Member : i # j => Elements(part[i]) \cap Elements(part[j]) = {}
  /\ Divided => UNION {Elements(part[i]) : i \in Member} = 0..(range - 1)

(* Equal shares differ by one element at most.                             *)
Balanced ==
  Divided /\ ~chunks => \A i, j \in Member : part[i].sub_range <= part[j].sub_range + 1

(* No two threads work on elements of one cache line, and exactly the      *)
(* threads below the threshold, which the callers test, have work.         *)
LinesApart ==
  chunks =>
    \A i \in Member : part[i] # None =>
      /\ part[i].index % Granule(elem_size) = 0
      /\ part[i].sub_range > 0 <=> i < Threshold(team_size, elem_size, range)

=============================================================================
