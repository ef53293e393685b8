------------------------- MODULE MC_FLASH_Queue_gpu -------------------------
(* Small instances of FLASH_Queue_gpu.                                      *)
EXTENDS FLASH_Queue_gpu

CONSTANTS A, B, C

MCBlock == {A, B, C}

OnGpu(in, out) == [in |-> in, out |-> out, gpu |-> TRUE]
OnCpu(in, out) == [in |-> in, out |-> out, gpu |-> FALSE]

MCProgram ==
  { \* a chain: a block is written again after another GPU has read it, and read again
    <<OnGpu(<<>>, <<A>>), OnGpu(<<A>>, <<B>>), OnGpu(<<B>>, <<A>>), OnGpu(<<A>>, <<C>>)>>,
    \* tasks that only the CPU executes, in front, in between and at the end
    <<OnCpu(<<>>, <<A>>), OnGpu(<<A, A>>, <<B>>), OnCpu(<<B>>, <<A>>), OnGpu(<<B, A>>, <<A>>)>>,
    \* independent outputs that evict each other
    <<OnGpu(<<>>, <<A>>), OnGpu(<<>>, <<B>>), OnGpu(<<>>, <<C>>), OnGpu(<<A>>, <<B>>)>>,
    <<OnGpu(<<>>, <<A>>), OnGpu(<<B>>, <<C>>), OnCpu(<<C>>, <<A>>), OnGpu(<<C>>, <<B>>)>> }
=============================================================================
