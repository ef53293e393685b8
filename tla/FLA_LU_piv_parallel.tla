------------------------ MODULE FLA_LU_piv_parallel ------------------------
(***************************************************************************)
(* FLA_LU_piv_d_parallel, the multithreaded LU factorisation with partial  *)
(* pivoting and look-ahead                                                 *)
(* (src/lapack/dec/lu/piv/front/flamec/FLA_LU_piv_d.c, built with          *)
(* FLA_OPENMP_MULTITHREADING).                                             *)
(*                                                                         *)
(* The columns up to min(m, n) are factored in panels of nb columns.       *)
(* While the threads 1, 2, ... apply a panel to the columns on its right,  *)
(* thread 0 applies it to the next panel and factors that one already.     *)
(* The rows that later panels interchange on their left are interchanged   *)
(* in a second parallel region.                                            *)
(*                                                                         *)
(* A column is the sequence of the operations applied to it, each with the *)
(* panel it came from; a pivot index is unset, relative to its panel or    *)
(* absolute.  A call of a BLAS or LAPACK routine takes effect in the step  *)
(* that ends it, and until then its thread stands at the call.             *)
(***************************************************************************)
EXTENDS FLA_Threads, Sequences, FiniteSets

CONSTANT Problem  \* the factorisations: sizes, threads and the zero pivots

ProblemType ==
  [m : Nat, n : Nat, nb : Nat, n_threads : Nat, team : Nat, zeros : SUBSET (Nat \ {0})]

(* FLA_get_optimum_params_getrf has chosen a block size and more than one  *)
(* thread; OpenMP provides team threads of those it is asked for.          *)
ASSUME ProblemAssumption ==
  \A p \in Problem :
    /\ p \in ProblemType /\ p.m > 0 /\ p.n > 0 /\ p.nb > 0
    /\ p.n_threads > 1 /\ 0 < p.team /\ p.team <= p.n_threads

VARIABLES
  prob,         \* the factorisation
  region,       \* "first", "update", "left" or "done"
  col,          \* the operations applied to each column
  ipiv,         \* the state of each pivot index
  info,         \* the first column with a zero pivot, or 0
  pc, j         \* each thread's place and panel

vars == <<prob, region, col, ipiv, info, pc, j>>

Minimum(a, b) == IF a <= b THEN a ELSE b

m == prob.m
n == prob.n
nb == prob.nb
mn == Minimum(m, n)
Column == 1..n
Thread == 0..(prob.team - 1)

(* The panel that starts at column p: its width and its columns.           *)
Width(p) == Minimum(mn - p + 1, nb)
Panel(p) == p..(p + Width(p) - 1)

-----------------------------------------------------------------------------
(* Which columns a call works on.                                          *)

\* Mutant: the columns of the other threads start right behind the panel.
OffsetOfPanel(p) == Width(p)

(* In the first region: thread 0 updates the columns of the next panel, as *)
(* many as this one has; the others share those behind.                    *)
Offset(p) == Width(p) * 2

UpdatedColumns(i, p) ==
  IF i = 0
  THEN (p + Width(p))..(p + Width(p) - 1 + Minimum(n - p - Width(p) + 1, Width(p)))
  ELSE LET part == FLA_Thread_get_subrange(i - 1, prob.n_threads - 1,
                                           n - p - Width(p) + 1 - Width(p))
           from == p + Offset(p) + part.index
       IN  from..(from + part.sub_range - 1)

\* Mutant: the panel's first column counts as one on its left.
LeftColumnsAndOne(i, p) ==
  LET part == FLA_Thread_get_subrange(i, prob.n_threads, p)
  IN  (1 + part.index)..(part.index + part.sub_range)

(* In the second region: all threads share the columns left of the panel.  *)
LeftColumns(i, p) ==
  LET part == FLA_Thread_get_subrange(i, prob.n_threads, p - 1)
  IN  (1 + part.index)..(part.index + part.sub_range)

(* The columns that thread i writes in the call it stands at, the columns  *)
(* it reads, and the pivot indices it writes and reads.                    *)
NextPanel(i) == j[i] + nb

Writes(i) ==
  CASE pc[i] \in {"laswp", "trsm", "gemm"} -> UpdatedColumns(i, j[i])
    [] pc[i] = "getrf2"                    -> Panel(NextPanel(i))
    [] pc[i] = "left"                      -> LeftColumns(i, j[i])
    [] OTHER                               -> {}
Reads(i) ==
  Writes(i) \cup IF pc[i] \in {"trsm", "gemm"} THEN Panel(j[i]) ELSE {}
PivotWrites(i) == IF pc[i] \in {"getrf2", "adjust"} THEN Panel(NextPanel(i)) ELSE {}
PivotReads(i) ==
  PivotWrites(i) \cup IF pc[i] \in {"laswp", "left"} THEN Panel(j[i]) ELSE {}

-----------------------------------------------------------------------------
Apply(columns, what, p) ==
  col' = [c \in Column |-> IF c \in columns THEN Append(col[c], <<what, p>>) ELSE col[c]]

SetPivots(p, value) == ipiv' = [c \in 1..mn |-> IF c \in Panel(p) THEN value ELSE ipiv[c]]

(* dgetrf2 on the panel at p: iinfo is its first zero pivot.               *)
Factor(p) ==
  /\ Apply(Panel(p), "factor", p)
  /\ SetPivots(p, "relative")
  /\ LET zero == prob.zeros \cap Panel(p)
     IN  info' = IF info = 0 /\ zero # {} THEN CHOOSE c \in zero : \A d \in zero : c <= d
                                          ELSE info

\* Mutant: the pivots of a panel stay relative to it.
AdjustNothing(p) == UNCHANGED ipiv

Adjust(p) == SetPivots(p, "absolute")

Goto(i, label) == pc' = [pc EXCEPT ![i] = label]

InitWith(p) ==
  /\ prob = p /\ region = "first" /\ info = 0
  /\ col = [c \in Column |-> <<>>]
  /\ ipiv = [c \in 1..mn |-> "unset"]
  /\ pc = [i \in Thread |-> IF i = 0 THEN "getrf2" ELSE "idle"]
  /\ j = [i \in Thread |-> 1]

Init == \E p \in Problem : InitWith(p)

(* Before the first region thread 0 factors the first panel alone.         *)
FactorFirst ==
  /\ region = "first" /\ pc[0] = "getrf2"
  /\ Factor(1)
  /\ Goto(0, "adjust")
  /\ UNCHANGED <<prob, region, j>>

(* The first thing a thread does with a panel.                             *)
Begin(i, p) == IF i = 0 \/ p + Width(p) <= n THEN "laswp" ELSE "barrier"

AdjustFirst ==
  /\ region = "first" /\ pc[0] = "adjust"
  /\ Adjust(1)
  /\ region' = "update"
  /\ pc' = [i \in Thread |-> Begin(i, 1)]
  /\ UNCHANGED <<prob, col, info, j>>

-----------------------------------------------------------------------------
(* The first parallel region.                                              *)

Swap(i) ==
  /\ pc[i] = "laswp"
  /\ Apply(UpdatedColumns(i, j[i]), "swap", j[i])
  /\ Goto(i, "trsm")
  /\ UNCHANGED <<prob, region, ipiv, info, j>>

\* Mutant: without a next panel thread 0 forgets the barrier.
AfterUpdateOnly(i) == IF i # 0 THEN "barrier"
                      ELSE IF NextPanel(i) <= mn THEN "getrf2" ELSE "idle"

(* After the update of its columns thread 0 factors the next panel, if     *)
(* there is one.                                                           *)
AfterUpdate(i) == IF i = 0 /\ NextPanel(i) <= mn THEN "getrf2" ELSE "barrier"

(* Nothing is left to update when the panel has no rows below it.          *)
Solve(i) ==
  /\ pc[i] = "trsm"
  /\ Apply(UpdatedColumns(i, j[i]), "solve", j[i])
  /\ Goto(i, IF j[i] + Width(j[i]) <= m THEN "gemm" ELSE AfterUpdate(i))
  /\ UNCHANGED <<prob, region, ipiv, info, j>>

Update(i) ==
  /\ pc[i] = "gemm"
  /\ Apply(UpdatedColumns(i, j[i]), "update", j[i])
  /\ Goto(i, AfterUpdate(i))
  /\ UNCHANGED <<prob, region, ipiv, info, j>>

FactorNext(i) ==
  /\ region = "update" /\ pc[i] = "getrf2"
  /\ Factor(NextPanel(i))
  /\ Goto(i, "adjust")
  /\ UNCHANGED <<prob, region, j>>

AdjustNext(i) ==
  /\ region = "update" /\ pc[i] = "adjust"
  /\ Adjust(NextPanel(i))
  /\ Goto(i, "barrier")
  /\ UNCHANGED <<prob, region, col, info, j>>

-----------------------------------------------------------------------------
(* The second parallel region, and the barriers of both.                   *)

SwapLeft(i) ==
  /\ pc[i] = "left"
  /\ Apply(LeftColumns(i, j[i]), "swap", j[i])
  /\ Goto(i, "barrier")
  /\ UNCHANGED <<prob, region, ipiv, info, j>>

AllWait == \A i \in Thread : pc[i] = "barrier"

MorePanels == j[0] + nb <= mn

(* The barrier at the end of each iteration; all threads have done the     *)
(* same number of iterations.                                              *)
NextIteration ==
  /\ region \in {"update", "left"} /\ AllWait /\ MorePanels
  /\ j' = [i \in Thread |-> j[i] + nb]
  /\ pc' = [i \in Thread |-> IF region = "left" THEN "left" ELSE Begin(i, j[i] + nb)]
  /\ UNCHANGED <<prob, region, col, ipiv, info>>

(* The end of a region.                                                    *)
EndRegion ==
  /\ region \in {"update", "left"} /\ AllWait /\ ~MorePanels
  /\ region' = IF region = "update" THEN "left" ELSE "done"
  /\ pc' = [i \in Thread |-> IF region = "update" THEN "left" ELSE "idle"]
  /\ j' = [i \in Thread |-> 1]
  /\ UNCHANGED <<prob, col, ipiv, info>>

Step(i) == Swap(i) \/ Solve(i) \/ Update(i) \/ FactorNext(i) \/ AdjustNext(i) \/ SwapLeft(i)

Done == region = "done"

Team == FactorFirst \/ AdjustFirst \/ NextIteration \/ EndRegion

Next == Team \/ (\E i \in Thread : Step(i)) \/ (Done /\ UNCHANGED vars)

Spec == Init /\ [][Next]_vars

(* The team keeps running.                                                 *)
FairSpec == Spec /\ WF_vars(Team) /\ WF_vars(\E i \in Thread : Step(i))

-----------------------------------------------------------------------------
(* Properties.                                                             *)

Label == {"idle", "laswp", "trsm", "gemm", "getrf2", "adjust", "left", "barrier"}

TypeOK ==
  /\ prob \in Problem /\ region \in {"first", "update", "left", "done"}
  /\ col \in [Column -> Seq({"swap", "solve", "update", "factor"} \X (1..mn))]
  /\ ipiv \in [1..mn -> {"unset", "relative", "absolute"}]
  /\ info \in 0..mn
  /\ pc \in [Thread -> Label] /\ j \in [Thread -> 1..mn]

(* No thread writes what another one reads or writes at the same time,     *)
(* neither a column nor a pivot index, although a panel is factored while  *)
(* the one before it is still being applied.                               *)
NoDataRace ==
  \A i, k \in Thread : i # k => Writes(i) \cap Reads(k) = {}
                             /\ PivotWrites(i) \cap PivotReads(k) = {}

(* The panels, by the column they start at.                                *)
Panels == {p \in 1..mn : p % nb = 1 % nb}

(* A panel is applied only when it has been factored and its pivots refer  *)
(* to the rows of the whole matrix.                                        *)
PanelReady ==
  \A i \in Thread : pc[i] \in {"laswp", "trsm", "gemm", "left"} =>
    \A c \in Panel(j[i]) : <<"factor", j[i]>> \in {col[c][k] : k \in 1..Len(col[c])}
                           /\ ipiv[c] = "absolute"

(* What the factorisation by one thread does to column c with the panel at *)
(* p: right of the panel, in it, left of it.                               *)
Sequential(c, p) ==
  CASE c >= p + Width(p) -> <<<<"swap", p>>, <<"solve", p>>>>
                              \o IF p + Width(p) <= m THEN <<<<"update", p>>>> ELSE <<>>
    [] c \in Panel(p)    -> <<<<"factor", p>>>>
    [] c < p             -> <<<<"swap", p>>>>

(* Whatever the sizes, the number of threads and the interleaving, every   *)
(* column undergoes the operations of the factorisation by one thread in   *)
(* the same order, and info is the first zero pivot.                       *)
Factored ==
  Done =>
    /\ \A c \in Column :
         LET h[k \in 0..mn] == IF k = 0 THEN <<>>
                               ELSE h[k - 1] \o IF k \in Panels THEN Sequential(c, k) ELSE <<>>
         IN  col[c] = h[mn]
    /\ \A c \in 1..mn : ipiv[c] = "absolute"
    /\ info = 0 => prob.zeros \cap (1..mn) = {}
    /\ info # 0 => info \in prob.zeros /\ \A c \in prob.zeros : info <= c

(* The factorisation comes to its end: the threads meet at every barrier.  *)
Completes == <>Done

=============================================================================
