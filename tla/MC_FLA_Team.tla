----------------------------- MODULE MC_FLA_Team -----------------------------
(***************************************************************************)
(* The division of work and the context in one instance.  They share no    *)
(* variable, so it is enough that they move one after the other: the team  *)
(* of a routine divides its range, for every size of team, range and       *)
(* element; behind the smallest of these the threads of the program call   *)
(* the context, in every order.                                            *)
(***************************************************************************)
EXTENDS MC_FLA_Context, FLA_Team

Smallest == team_size = 1 /\ range = 0 /\ ~chunks /\ elem_size = 0

MCInit == Init /\ TeamInit

MCNext ==
  \/ TeamNext /\ UNCHANGED vars
  \/ Smallest /\ Divided /\ Next /\ UNCHANGED team

(* A thread that has called the library keeps running, as in FairSpec.     *)
MCFairSpec ==
  MCInit /\ [][MCNext]_<<vars, team>> /\ \A i \in Thread : WF_vars(Work(i))

=============================================================================
