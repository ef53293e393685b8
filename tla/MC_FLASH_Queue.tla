--------------------------- MODULE MC_FLASH_Queue ---------------------------
(* A small instance of FLASH_Queue.  Of the argument lists that differ     *)
(* only in the order of two blocks one is kept.                            *)
EXTENDS FLASH_Queue, TLC

CONSTANTS A, B

MCBlock == {A, B}

\* A block may occur twice, as in Gemm(A, A, C), and be read and written.
MCIn == {<<>>, <<A>>, <<B>>, <<A, A>>, <<A, B>>}

\* Two output blocks are two arguments or one macroblock.
MCOut == {<<<<A>>, 1>>, <<<<B>>, 1>>, <<<<A, A>>, 2>>, <<<<A, B>>, 2>>,
          <<<<B, A>>, 2>>, <<<<A, B>>, 1>>}

MCOp == {[in |-> i, out |-> o[1], n_in |-> Len(i), n_out |-> o[2]] :
           i \in MCIn, o \in MCOut}

=============================================================================
