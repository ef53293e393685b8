--------------------------- MODULE MC_FLA_Context ---------------------------
(* A small instance of FLA_Context: two threads, FLA_NUM_THREADS unset or  *)
(* set, and counts that tell its three sources apart.                      *)
EXTENDS FLA_Context

MCEnvValue == {Unset, 5}

=============================================================================
