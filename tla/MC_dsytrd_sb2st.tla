-------------------------- MODULE MC_dsytrd_sb2st --------------------------
(* Small reductions: bands of two and three subdiagonals, orders that are  *)
(* and are not multiples of the bandwidth, up to the full matrix.          *)
EXTENDS dsytrd_sb2st

Reduce(order, width, team) ==
  [n |-> order, kd |-> width, threads |-> team, mt |-> TRUE, levels |-> 1]

MCProblem ==
  {Reduce(order, 2, team) : order \in 1..9, team \in 1..3}
    \cup {Reduce(order, 3, 3) : order \in 4..11} \cup {Reduce(12, 4, 3)}

(* OpenMP chooses the number of threads, nested parallelism is off.        *)
Unset == {[n |-> 5, kd |-> 2, threads |-> 2, mt |-> FALSE, levels |-> 1]}

=============================================================================
