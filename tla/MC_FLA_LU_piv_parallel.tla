----------------------- MODULE MC_FLA_LU_piv_parallel -----------------------
(* Small factorisations: square, tall and wide, with a last panel that is  *)
(* narrower than the others, with more and with fewer columns than threads.*)
EXTENDS FLA_LU_piv_parallel

Sizes == {<<1, 1>>, <<1, 4>>, <<3, 3>>, <<5, 3>>, <<3, 6>>, <<5, 5>>, <<4, 7>>, <<6, 7>>}

Given(size, block, threads, provided, zero) ==
  [m |-> size[1], n |-> size[2], nb |-> block, n_threads |-> threads, team |-> provided,
   zeros |-> zero]

MCProblem ==
  {Given(size, block, threads, threads, zero) :
     size \in Sizes, block \in 1..3, threads \in 2..4, zero \in {{}, {1}}}
  \cup {Given(<<6, 6>>, 2, 3, 3, zero) : zero \in SUBSET {2, 3, 6}}

(* Inside another parallel region, with nesting inactive, a team has one   *)
(* thread, however many have been asked for.                               *)
ShortTeam == {Given(<<6, 6>>, 2, 4, 1, {})}

=============================================================================
