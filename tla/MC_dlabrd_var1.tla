--------------------------- MODULE MC_dlabrd_var1 ---------------------------
(***************************************************************************)
(* Instances of dlabrd_var1 for model checking.                            *)
(***************************************************************************)
EXTENDS dlabrd_var1

(* A tall and a wide matrix, two columns of which are reduced.             *)
Matrices == {[m |-> 5, n |-> 4, nb |-> 2], [m |-> 3, n |-> 4, nb |-> 2]}

=============================================================================
