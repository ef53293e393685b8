---------------------------- MODULE FLA_Threads ----------------------------
(***************************************************************************)
(* How the threads of a team divide rows or columns among themselves       *)
(* (src/base/flamec/main/FLA_Threads.c).  A part starts index elements     *)
(* after the first and has sub_range elements.                             *)
(***************************************************************************)
EXTENDS Integers

Nothing == [index |-> 0, sub_range |-> 0]

\* Mutants: the threads that take no element more forget those that do; the
\* last thread takes the whole remainder.
SubrangeOverlaps(thread_ID, num_threads, range) ==
  LET sub_region == range \div num_threads
      more       == thread_ID < range % num_threads
  IN  IF range <= 0 THEN Nothing
      ELSE [index     |-> thread_ID * (IF more THEN sub_region + 1 ELSE sub_region),
            sub_range |-> IF more THEN sub_region + 1 ELSE sub_region]

SubrangeUneven(thread_ID, num_threads, range) ==
  LET sub_region == range \div num_threads
  IN  IF range <= 0 THEN Nothing
      ELSE [index     |-> thread_ID * sub_region,
            sub_range |-> IF thread_ID = num_threads - 1
                          THEN range - thread_ID * sub_region ELSE sub_region]

(* Equal shares; the first threads take one element more each when the     *)
(* range does not divide evenly.                                           *)
FLA_Thread_get_subrange(thread_ID, num_threads, range) ==
  LET sub_region == range \div num_threads
      remainder  == range % num_threads
  IN  CASE range <= 0            -> Nothing
        [] range > 0 /\ thread_ID < remainder  ->
             [index |-> thread_ID * (sub_region + 1), sub_range |-> sub_region + 1]
        [] range > 0 /\ thread_ID >= remainder ->
             [index |-> remainder + thread_ID * sub_region, sub_range |-> sub_region]

(* The elements of one cache line, which is 64 bytes long.                 *)
Granule(elem_size) == IF elem_size = 0 \/ elem_size > 64 THEN 1 ELSE 64 \div elem_size

CeilDiv(a, b) == (a \div b) + IF a % b > 0 THEN 1 ELSE 0

\* Mutant: shares are not made of whole cache lines.
ChunkOfElements(num_threads, elem_size, range) == CeilDiv(range, num_threads)

(* The size of a share in whole cache lines, and thread_threshold, the     *)
(* number of shares that make up the range.                                *)
Chunk(num_threads, elem_size, range) ==
  CeilDiv(range, Granule(elem_size) * num_threads) * Granule(elem_size)

Threshold(num_threads, elem_size, range) ==
  IF num_threads <= 0 \/ range <= 0 THEN 0
  ELSE CeilDiv(range, Chunk(num_threads, elem_size, range))

\* Mutant: the last thread's share is not cut to the range.
ChunksUncut(thread_ID, num_threads, elem_size, range) ==
  LET chunk == Chunk(num_threads, elem_size, range)
  IN  IF thread_ID < Threshold(num_threads, elem_size, range)
      THEN [index |-> thread_ID * chunk, sub_range |-> chunk] ELSE Nothing

(* Shares in whole cache lines: the last thread that gets one takes what   *)
(* is left, the threads beyond the threshold get nothing.                  *)
FLA_Thread_get_subrange_chunks(thread_ID, num_threads, elem_size, range) ==
  LET chunk     == Chunk(num_threads, elem_size, range)
      threshold == Threshold(num_threads, elem_size, range)
  IN  CASE thread_ID < threshold - 1 -> [index |-> thread_ID * chunk, sub_range |-> chunk]
        [] thread_ID = threshold - 1 ->
             [index |-> thread_ID * chunk, sub_range |-> range - thread_ID * chunk]
        [] thread_ID > threshold - 1 -> Nothing

=============================================================================
