--------------------- MODULE FLA_LU_piv_parallel_proofs ---------------------
(***************************************************************************)
(* The multithreaded LU factorisation keeps its types, is free of data     *)
(* races, applies only panels that are ready and, with a full team, gives  *)
(* the factorisation by one thread, for every size of the matrix, block    *)
(* size and number of threads.                                             *)
(*                                                                         *)
(* All threads are at the same panel.  While they apply it, thread 0       *)
(* factors the next one, whose columns lie between those of the panel and  *)
(* those that the other threads share.                                     *)
(*                                                                         *)
(* The operations on a column are at every moment a prefix of what one     *)
(* thread would do to it: up to the panels on its left and its own in the  *)
(* first region, then up to the panels on its right.                       *)
(***************************************************************************)
EXTENDS FLA_LU_piv_parallel, FLA_Threads_proofs, WellFoundedInduction,
        SequenceTheorems

Operations == {"swap", "solve", "update", "factor"}

InStep == \A i \in Thread : j[i] = j[0]

(* Where the threads may be in each region; only thread 0 factors panels.  *)
Places ==
  /\ region = "first" =>
       /\ j[0] = 1 /\ pc[0] \in {"getrf2", "adjust"}
       /\ \A i \in Thread \ {0} : pc[i] = "idle"
  /\ region = "update" =>
       \A i \in Thread :
         /\ pc[i] \in {"laswp", "trsm", "gemm", "getrf2", "adjust", "barrier"}
         /\ pc[i] \in {"getrf2", "adjust"} => i = 0 /\ NextPanel(0) <= mn
  /\ region = "left" => \A i \in Thread : pc[i] \in {"left", "barrier"}
  /\ region = "done" => \A i \in Thread : pc[i] = "idle"

PInv == TypeOK /\ InStep /\ Places

-----------------------------------------------------------------------------
(* Sizes and panels.                                                       *)
LEMMA Sizes ==
  ASSUME prob \in Problem
  PROVE  /\ m \in Nat /\ n \in Nat /\ nb \in Nat /\ nb > 0
         /\ mn \in Nat /\ mn > 0 /\ mn <= m /\ mn <= n
         /\ prob.n_threads \in Nat /\ prob.n_threads > 1
         /\ 0 \in Thread /\ Thread \subseteq 0..(prob.n_threads - 1)
<1>1. /\ prob \in ProblemType /\ prob.m > 0 /\ prob.n > 0 /\ prob.nb > 0
      /\ prob.n_threads > 1 /\ 0 < prob.team /\ prob.team <= prob.n_threads
  BY ProblemAssumption
<1>2. /\ prob.m \in Nat /\ prob.n \in Nat /\ prob.nb \in Nat /\ prob.n_threads \in Nat
      /\ prob.team \in Nat
  BY <1>1 DEF ProblemType
<1>3. QED
  BY <1>1, <1>2 DEF m, n, nb, mn, Minimum, Thread

(* Nothing that is computed from the problem changes while it runs.        *)
LEMMA SameProblem ==
  ASSUME prob' = prob
  PROVE  m' = m /\ n' = n /\ nb' = nb /\ mn' = mn /\ Thread' = Thread /\ Column' = Column
BY DEF m, n, nb, mn, Thread, Column, Minimum

(* The panels do not change either.                                        *)
LEMMA SamePanels ==
  ASSUME prob' = prob, NEW p
  PROVE  Panel(p)' = Panel(p)
BY SameProblem DEF Panel, Width, Minimum

(* A panel is not empty and lies within the first mn columns; before the   *)
(* next panel it has all of its nb columns.                                *)
LEMMA PanelFacts ==
  ASSUME prob \in Problem, NEW p \in 1..mn
  PROVE  /\ Width(p) \in 1..nb /\ p + Width(p) - 1 \in 1..mn
         /\ Panel(p) \subseteq 1..mn /\ p \in Panel(p)
         /\ Panel(p) \subseteq p..(p + nb - 1)
         /\ p + nb <= mn => Width(p) = nb /\ p + nb \in 1..mn
BY Sizes DEF Width, Panel, Minimum

-----------------------------------------------------------------------------
(* The calls of a thread keep the types.                                   *)
LEMMA ApplyType ==
  ASSUME TypeOK, prob' = prob, NEW columns, NEW what \in Operations, NEW p \in 1..mn,
         Apply(columns, what, p)
  PROVE  col' \in [Column -> Seq(Operations \X (1..mn))]
<1>1. <<what, p>> \in Operations \X (1..mn)
  OBVIOUS
<1>2. col \in [Column -> Seq(Operations \X (1..mn))]
  BY DEF TypeOK, Operations
<1> DEFINE S == Operations \X (1..mn)
           e == <<what, p>>
<1> HIDE DEF S, e
<1>3. e \in S /\ col \in [Column -> Seq(S)]
  BY <1>1, <1>2 DEF S, e
<1>4. \A c \in Column : col[c] \in Seq(S) /\ Append(col[c], e) \in Seq(S)
  BY <1>3
<1>5. col' = [c \in Column |-> IF c \in columns THEN Append(col[c], e) ELSE col[c]]
  BY DEF Apply, e
<1>6. col' \in [Column -> Seq(S)]
  BY <1>4, <1>5
<1>7. QED
  BY <1>6 DEF S

(* A set of numbers has a least one.                                       *)
LEMMA LeastOf ==
  ASSUME NEW S, S \subseteq Nat, S # {}
  PROVE  \E c \in S : \A d \in S : c <= d
<1> DEFINE Less == {e \in Nat \X Nat : e[1] < e[2]}
<1>1. IsWellFoundedOn(Less, Nat)
  BY NatLessThanWellFounded DEF OpToRel
<1>2. \A a \in Nat, b \in Nat : a < b => <<a, b>> \in Less
  OBVIOUS
<1> HIDE DEF Less
<1>3. PICK c \in S : \A d \in S : <<d, c>> \notin Less
  BY <1>1, WFMin
<1>4. \A d \in S : c <= d
  <2> SUFFICES ASSUME NEW d \in S, ~(c <= d) PROVE FALSE
    OBVIOUS
  <2>1. d < c
    OBVIOUS
  <2>2. <<d, c>> \in Less
    BY <1>2, <2>1
  <2>3. QED
    BY <1>3, <2>2
<1>5. QED
  BY <1>4

(* The first zero pivot of a panel is one of its columns.                  *)
LEMMA LeastElement ==
  ASSUME NEW S, S \subseteq Nat, S # {}
  PROVE  (CHOOSE c \in S : \A d \in S : c <= d) \in S
BY LeastOf

(* The factorisation of a panel keeps the types.                           *)
LEMMA FactorType ==
  ASSUME TypeOK, prob' = prob, NEW p \in 1..mn, Factor(p)
  PROVE  /\ col' \in [Column -> Seq(Operations \X (1..mn))]
         /\ ipiv' \in [1..mn -> {"unset", "relative", "absolute"}]
         /\ info' \in 0..mn
<1>1. col' \in [Column -> Seq(Operations \X (1..mn))]
  BY ApplyType DEF Factor, Operations
<1>2. ipiv' \in [1..mn -> {"unset", "relative", "absolute"}]
  BY DEF Factor, SetPivots, TypeOK
<1>3. info' \in 0..mn
  <2> DEFINE zero == prob.zeros \cap Panel(p)
  <2>1. zero \subseteq 1..mn
    BY PanelFacts DEF TypeOK
  <2>2. ASSUME zero # {}
        PROVE  (CHOOSE c \in zero : \A d \in zero : c <= d) \in zero
    <3> HIDE DEF zero
    <3>1. zero \subseteq Nat
      BY <2>1, Sizes DEF TypeOK
    <3>2. QED
      BY <2>2, <3>1, LeastElement
  <2>3. QED
    BY <2>1, <2>2 DEF Factor, TypeOK
<1>4. QED
  BY <1>1, <1>2, <1>3
-----------------------------------------------------------------------------
LEMMA PInvInit == Init => PInv
<1> SUFFICES ASSUME NEW p \in Problem, InitWith(p) PROVE PInv
  BY DEF Init
<1>1. prob \in Problem /\ prob = p
  BY DEF InitWith
<1>2. TypeOK
  <2>1. col \in [Column -> Seq(Operations \X (1..mn))]
    BY DEF InitWith
  <2>2. QED
    BY <1>1, <2>1, Sizes DEF InitWith, TypeOK, Label, Operations
<1>3. InStep /\ Places
  BY <1>1, Sizes DEF InitWith, InStep, Places
<1>4. QED
  BY <1>2, <1>3 DEF PInv

(* A call of thread i in a parallel region.                                *)
LEMMA StepKeeps == ASSUME PInv, NEW i \in Thread, Step(i) PROVE PInv'
<1>1. prob \in Problem /\ prob' = prob /\ region' = region /\ j' = j
  BY DEF Step, Swap, Solve, Update, FactorNext, AdjustNext, SwapLeft, PInv, TypeOK
<1>2. /\ m' = m /\ n' = n /\ nb' = nb /\ mn' = mn /\ Thread' = Thread /\ Column' = Column
      /\ nb \in Nat /\ mn \in Nat /\ 0 \in Thread
  BY <1>1, SameProblem, Sizes
<1>3. j \in [Thread -> 1..mn] /\ pc \in [Thread -> Label] /\ j[i] \in 1..mn
  BY DEF PInv, TypeOK
<1>4. pc[i] \in {"getrf2", "adjust"} /\ region = "update" => i = 0 /\ NextPanel(i) \in 1..mn
  BY <1>2, <1>3 DEF PInv, Places, NextPanel
<1>5. /\ \A p \in 1..mn : p + Width(p) \in Nat
      /\ AfterUpdate(i) \in {"getrf2", "barrier"}
      /\ AfterUpdate(i) = "getrf2" => i = 0 /\ NextPanel(0) <= mn
  BY <1>1, <1>2, PanelFacts DEF AfterUpdate
<1>6. /\ pc' \in [Thread -> Label]
      /\ \A k \in Thread \ {i} : pc'[k] = pc[k]
      /\ pc'[i] \in {"trsm", "gemm", "getrf2", "adjust", "barrier"}
      /\ region = "update" \/ (region = "left" /\ pc'[i] = "barrier")
      /\ pc'[i] \in {"getrf2", "adjust"} => i = 0 /\ NextPanel(0) <= mn
  <2>1. region \in {"update", "left"} /\ (region = "left" => pc[i] = "left")
        /\ (region = "update" => pc[i] # "left")
    BY <1>3 DEF PInv, Places, TypeOK, Step, Swap, Solve, Update, FactorNext, AdjustNext, SwapLeft
  <2>2. CASE Swap(i)
    BY <1>3, <2>1, <2>2 DEF Swap, Goto, Label
  <2>3. CASE Solve(i)
    BY <1>3, <1>5, <2>1, <2>3 DEF Solve, Goto, Label
  <2>4. CASE Update(i)
    BY <1>3, <1>5, <2>1, <2>4 DEF Update, Goto, Label
  <2>5. CASE FactorNext(i)
    BY <1>2, <1>3, <1>4, <2>1, <2>5 DEF FactorNext, Goto, Label
  <2>6. CASE AdjustNext(i)
    BY <1>3, <2>1, <2>6 DEF AdjustNext, Goto, Label
  <2>7. CASE SwapLeft(i)
    BY <1>3, <2>1, <2>7 DEF SwapLeft, Goto, Label
  <2>8. QED
    BY <2>2, <2>3, <2>4, <2>5, <2>6, <2>7 DEF Step
<1>7. /\ col' \in [Column -> Seq(Operations \X (1..mn))]
      /\ ipiv' \in [1..mn -> {"unset", "relative", "absolute"}]
      /\ info' \in 0..mn
  <2>1. TypeOK
    BY DEF PInv
  <2>2. CASE Swap(i) \/ Solve(i) \/ Update(i) \/ SwapLeft(i)
    <3>1. UNCHANGED <<ipiv, info>>
      BY <2>2 DEF Swap, Solve, Update, SwapLeft
    <3>2. \/ Apply(UpdatedColumns(i, j[i]), "swap", j[i])
          \/ Apply(UpdatedColumns(i, j[i]), "solve", j[i])
          \/ Apply(UpdatedColumns(i, j[i]), "update", j[i])
          \/ Apply(LeftColumns(i, j[i]), "swap", j[i])
      BY <2>2 DEF Swap, Solve, Update, SwapLeft
    <3>3. col' \in [Column -> Seq(Operations \X (1..mn))]
      <4>1. {"swap", "solve", "update"} \subseteq Operations
        BY DEF Operations
      <4>2. QED
        BY <1>1, <1>3, <2>1, <3>2, <4>1, ApplyType
    <3>4. QED
      BY <2>1, <3>1, <3>3 DEF TypeOK
  <2>3. CASE FactorNext(i)
    BY <1>1, <1>4, <2>1, <2>3, FactorType DEF FactorNext
  <2>4. CASE AdjustNext(i)
    BY <2>1, <2>4 DEF AdjustNext, Adjust, SetPivots, TypeOK, Operations
  <2>5. QED
    BY <2>2, <2>3, <2>4 DEF Step
<1>8. TypeOK'
  BY <1>1, <1>2, <1>3, <1>6, <1>7 DEF PInv, TypeOK, Operations
<1>9. InStep'
  BY <1>1, <1>2 DEF PInv, InStep
<1>10. Places'
  BY <1>1, <1>2, <1>6 DEF PInv, Places, NextPanel
<1>11. QED
  BY <1>8, <1>9, <1>10 DEF PInv

(* The steps of the whole team: the first panel, the next iteration and    *)
(* the end of a region.                                                    *)
LEMMA TeamKeeps == ASSUME PInv, Team PROVE PInv'
<1>1. prob \in Problem /\ prob' = prob
  BY DEF Team, FactorFirst, AdjustFirst, NextIteration, EndRegion, PInv, TypeOK
<1>2. /\ m' = m /\ n' = n /\ nb' = nb /\ mn' = mn /\ Thread' = Thread /\ Column' = Column
      /\ nb \in Nat /\ mn \in Nat /\ mn > 0 /\ 0 \in Thread
  BY <1>1, SameProblem, Sizes
<1>3. \A i \in Thread, p \in 1..mn : Begin(i, p) \in {"laswp", "barrier"}
  BY DEF Begin
<1>4. CASE FactorFirst
  <2>1. 1 \in 1..mn
    BY <1>2
  <2>2. /\ col' \in [Column -> Seq(Operations \X (1..mn))]
        /\ ipiv' \in [1..mn -> {"unset", "relative", "absolute"}]
        /\ info' \in 0..mn
    BY <1>1, <1>4, <2>1, FactorType DEF FactorFirst, PInv
  <2>3. TypeOK'
    BY <1>1, <1>2, <1>4, <2>2 DEF FactorFirst, PInv, TypeOK, Operations, Goto, Label
  <2>4. InStep' /\ Places'
    BY <1>2, <1>4 DEF FactorFirst, PInv, InStep, Places, TypeOK, Goto
  <2>5. QED
    BY <2>3, <2>4 DEF PInv
<1>5. CASE AdjustFirst
  <2>1. TypeOK'
    BY <1>1, <1>2, <1>5 DEF AdjustFirst, PInv, TypeOK, Adjust, SetPivots, Begin, Label
  <2>2. InStep' /\ Places'
    BY <1>2, <1>5 DEF AdjustFirst, PInv, InStep, Places, TypeOK, Begin
  <2>3. QED
    BY <2>1, <2>2 DEF PInv
<1>6. CASE NextIteration
  <2>1. \A i \in Thread : j[i] = j[0] /\ j[0] \in 1..mn /\ j[i] + nb \in 1..mn
    BY <1>2, <1>6 DEF NextIteration, MorePanels, PInv, InStep, TypeOK
  <2>2. TypeOK'
    BY <1>1, <1>2, <1>6, <2>1 DEF NextIteration, PInv, TypeOK, Begin, Label
  <2>3. InStep' /\ Places'
    BY <1>2, <1>6, <2>1 DEF NextIteration, PInv, InStep, Places, TypeOK, Begin
  <2>4. QED
    BY <2>2, <2>3 DEF PInv
<1>7. CASE EndRegion
  <2>1. TypeOK'
    BY <1>1, <1>2, <1>7 DEF EndRegion, PInv, TypeOK, Label
  <2>2. InStep' /\ Places'
    BY <1>2, <1>7 DEF EndRegion, PInv, InStep, Places, TypeOK
  <2>3. QED
    BY <2>1, <2>2 DEF PInv
<1>8. QED
  BY <1>4, <1>5, <1>6, <1>7 DEF Team

LEMMA PInvInvariant == Spec => []PInv
<1>1. PInv /\ [Next]_vars => PInv'
  <2> SUFFICES ASSUME PInv, [Next]_vars PROVE PInv'
    OBVIOUS
  <2>1. CASE UNCHANGED vars
    <3>1. prob' = prob
      BY <2>1 DEF vars
    <3>2. QED
      BY <2>1, <3>1, SameProblem DEF PInv, TypeOK, InStep, Places, NextPanel, vars
  <2>2. QED
    BY <2>1, StepKeeps, TeamKeeps DEF Next
<1>2. QED
  BY PInvInit, <1>1, PTL DEF Spec

-----------------------------------------------------------------------------
(* Columns, pivot indices and panels keep their ranges: in particular no   *)
(* thread goes on to a panel beyond the last one.                          *)
THEOREM TypeCorrect == Spec => []TypeOK
BY PInvInvariant, PTL DEF PInv
-----------------------------------------------------------------------------
(* The columns of part v when N threads share range columns.               *)
PartOf(v, N, range, from) ==
  LET part == FLA_Thread_get_subrange(v, N, range)
  IN  (from + part.index)..(from + part.index + part.sub_range - 1)

(* A part lies within the range, and two parts do not overlap.             *)
LEMMA PartFacts ==
  ASSUME NEW N \in Nat, N > 0, NEW range \in Int, NEW from \in Int, NEW t \in 0..(N - 1)
  PROVE  /\ FLA_Thread_get_subrange(t, N, range).index \in Nat
         /\ FLA_Thread_get_subrange(t, N, range).sub_range \in Nat
         /\ PartOf(t, N, range, from) \subseteq from..(from + range - 1)
         /\ \A u \in 0..(N - 1) :
              t # u => PartOf(t, N, range, from) \cap PartOf(u, N, range, from) = {}
<1>1. CASE range <= 0
  <2>1. \A v : FLA_Thread_get_subrange(v, N, range) = Nothing
    BY <1>1 DEF FLA_Thread_get_subrange
  <2>2. Nothing.index = 0 /\ Nothing.sub_range = 0
    BY DEF Nothing
  <2>3. QED
    BY <2>1, <2>2 DEF PartOf
<1>2. CASE range > 0
  <2> DEFINE s == [v \in 0..(N - 1) |-> FLA_Thread_get_subrange(v, N, range)]
  <2>1. Tiles(s, N, range)
    BY <1>2, SubrangeTiles
  <2>2. \A v \in 0..(N - 1) : FLA_Thread_get_subrange(v, N, range) = s[v]
    OBVIOUS
  <2> HIDE DEF s
  <2>3. ASSUME NEW v \in 0..(N - 1)
        PROVE  \E a \in Nat, b \in Nat : s[v].index = a /\ s[v].sub_range = b /\ a + b <= range
    BY <2>1 DEF Tiles
  <2>4. PICK ti \in Nat, tr \in Nat : s[t].index = ti /\ s[t].sub_range = tr /\ ti + tr <= range
    BY <2>3
  <2>5. PartOf(t, N, range, from) = (from + ti)..(from + ti + tr - 1)
    BY <2>2, <2>4 DEF PartOf
  <2>6. ASSUME NEW u \in 0..(N - 1), t # u
        PROVE  PartOf(t, N, range, from) \cap PartOf(u, N, range, from) = {}
    <3>1. PICK ui \in Nat, ur \in Nat : s[u].index = ui /\ s[u].sub_range = ur
      BY <2>3
    <3>2. ur = 0 \/ tr = 0 \/ ti + tr <= ui \/ ui + ur <= ti
      <4>1. CASE t < u
        BY <2>1, <2>4, <3>1, <4>1 DEF Tiles
      <4>2. CASE u < t
        BY <2>1, <2>4, <3>1, <4>2 DEF Tiles
      <4>3. QED
        BY <2>6, <4>1, <4>2
    <3>3. PartOf(u, N, range, from) = (from + ui)..(from + ui + ur - 1)
      BY <2>2, <3>1 DEF PartOf
    <3>4. QED
      BY <2>5, <3>2, <3>3
  <2>7. QED
    BY <2>2, <2>4, <2>5, <2>6
<1>3. QED
  BY <1>1, <1>2

(* The columns that are updated with the panel at p: those of the next     *)
(* panel, and behind them those that the other threads share.              *)
LEMMA UpdatedApart ==
  ASSUME prob \in Problem, NEW p \in 1..mn
  PROVE  /\ UpdatedColumns(0, p) \subseteq (p + Width(p))..(p + 2 * Width(p) - 1)
         /\ \A i \in Thread \ {0}, k \in Thread \ {0} :
              i # k => UpdatedColumns(i, p) \cap UpdatedColumns(k, p) = {}
         /\ \A i \in Thread \ {0} : \A c \in UpdatedColumns(i, p) :
              c \in Int /\ c >= p + 2 * Width(p)
<1> DEFINE N == prob.n_threads - 1
           from == p + Offset(p)
           range == n - p - Width(p) + 1 - Width(p)
<1>1. Width(p) \in 1..nb /\ n \in Nat /\ N \in Nat /\ N > 0 /\ nb \in Nat /\ mn \in Nat
  BY Sizes, PanelFacts
<1>2. UpdatedColumns(0, p) \subseteq (p + Width(p))..(p + 2 * Width(p) - 1)
  BY <1>1 DEF UpdatedColumns, Minimum
<1>3. from \in Int /\ from = p + 2 * Width(p) /\ range \in Int
  BY <1>1 DEF Offset
<1>4. \A i \in Thread \ {0} : i \in Int /\ i - 1 \in 0..(N - 1)
  BY <1>1, Sizes
<1>5. \A i \in Thread \ {0} : UpdatedColumns(i, p) = PartOf(i - 1, N, range, from)
  BY DEF UpdatedColumns, PartOf
<1> HIDE DEF N, from, range
<1>6. ASSUME NEW i \in Thread \ {0}, NEW k \in Thread \ {0}, i # k
      PROVE  UpdatedColumns(i, p) \cap UpdatedColumns(k, p) = {}
  <2>1. PICK t \in 0..(N - 1), u \in 0..(N - 1) : t = i - 1 /\ u = k - 1 /\ t # u
    BY <1>4, <1>6
  <2>2. PartOf(t, N, range, from) \cap PartOf(u, N, range, from) = {}
    BY <1>1, <1>3, <2>1, PartFacts
  <2>3. QED
    BY <1>5, <2>1, <2>2
<1>7. ASSUME NEW i \in Thread \ {0}, NEW c \in UpdatedColumns(i, p)
      PROVE  c \in Int /\ c >= p + 2 * Width(p)
  <2>1. PICK t \in 0..(N - 1) : t = i - 1
    BY <1>4
  <2>2. PartOf(t, N, range, from) \subseteq from..(from + range - 1)
    BY <1>1, <1>3, PartFacts
  <2>3. c \in from..(from + range - 1)
    BY <1>5, <2>1, <2>2
  <2>4. QED
    BY <1>1, <1>3, <2>3
<1>8. QED
  BY <1>2, <1>6, <1>7

(* The columns on the left of a panel that two threads interchange rows    *)
(* of.                                                                     *)
LEMMA LeftApart ==
  ASSUME prob \in Problem, NEW p \in 1..mn, NEW i \in Thread, NEW k \in Thread, i # k
  PROVE  LeftColumns(i, p) \cap LeftColumns(k, p) = {}
<1> DEFINE N == prob.n_threads
           range == p - 1
<1>1. N \in Nat /\ N > 0 /\ range \in Int /\ Thread \subseteq 0..(N - 1)
  BY Sizes
<1>2. ASSUME NEW v \in Thread
      PROVE  LeftColumns(v, p) = PartOf(v, N, range, 1)
  <2> DEFINE part == FLA_Thread_get_subrange(v, N, range)
  <2>1. /\ LeftColumns(v, p) = (1 + part.index)..(part.index + part.sub_range)
        /\ PartOf(v, N, range, 1) = (1 + part.index)..(1 + part.index + part.sub_range - 1)
    BY DEF LeftColumns, PartOf
  <2> HIDE DEF N, range
  <2>2. part.index \in Nat /\ part.sub_range \in Nat
    BY <1>1, PartFacts
  <2> HIDE DEF part
  <2>3. QED
    BY <2>1, <2>2
<1> HIDE DEF N, range
<1>3. PartOf(i, N, range, 1) \cap PartOf(k, N, range, 1) = {}
  <2>1. PICK a \in 0..(N - 1), b \in 0..(N - 1), from \in Int :
          a = i /\ b = k /\ a # b /\ from = 1
    BY <1>1
  <2>2. PartOf(a, N, range, from) \cap PartOf(b, N, range, from) = {}
    BY <1>1, <2>1, PartFacts
  <2>3. QED
    BY <2>1, <2>2
<1>4. QED
  BY <1>2, <1>3

(* The threads never touch a column or a pivot index that another one is   *)
(* writing, although thread 0 factors a panel while the others still apply *)
(* the one before it.                                                      *)
THEOREM RaceFree == Spec => []NoDataRace
<1>1. ASSUME PInv
      PROVE  NoDataRace
  <2> SUFFICES ASSUME NEW i \in Thread, NEW k \in Thread, i # k
               PROVE  /\ Writes(i) \cap Reads(k) = {}
                      /\ PivotWrites(i) \cap PivotReads(k) = {}
    BY DEF NoDataRace
  <2>1. PICK p \in 1..mn : p = j[i] /\ p = j[k] /\ p = j[0]
    BY <1>1 DEF PInv, InStep, TypeOK
  <2>2. prob \in Problem /\ nb \in Nat /\ mn \in Nat /\ 0 \in Thread
    BY <1>1, Sizes DEF PInv, TypeOK
  <2>3. /\ Width(p) \in 1..nb /\ Panel(p) = p..(p + Width(p) - 1)
        /\ p + nb <= mn => Width(p) = nb /\ Panel(p + nb) \subseteq (p + nb)..(p + nb + nb - 1)
    BY <2>2, PanelFacts DEF Panel
  <2>4. CASE region \in {"first", "done"}
    BY <1>1, <2>4 DEF PInv, Places, Writes, PivotWrites, Reads, PivotReads
  <2>5. CASE region = "left"
    <3>1. pc[i] \in {"left", "barrier"} /\ pc[k] \in {"left", "barrier"}
      BY <1>1, <2>5 DEF PInv, Places
    <3>2. QED
      BY <2>1, <2>2, <3>1, LeftApart DEF Writes, Reads, PivotWrites, PivotReads
  <2>6. CASE region = "update"
    <3>1. \A v \in {i, k} :
            /\ pc[v] \in {"laswp", "trsm", "gemm", "getrf2", "adjust", "barrier"}
            /\ pc[v] \in {"getrf2", "adjust"} => v = 0 /\ p + nb <= mn
      BY <1>1, <2>1, <2>6 DEF PInv, Places, NextPanel
    <3>2. Writes(i) \cap Writes(k) = {}
      <4>1. \A v \in {i, k} :
              /\ v = 0 => \A c \in Writes(v) : c \in Int /\ c < p + 2 * Width(p)
              /\ v # 0 => Writes(v) \subseteq UpdatedColumns(v, p)
        <5> SUFFICES ASSUME NEW v \in {i, k}
                     PROVE  /\ v = 0 => \A c \in Writes(v) : c \in Int /\ c < p + 2 * Width(p)
                            /\ v # 0 => Writes(v) \subseteq UpdatedColumns(v, p)
          OBVIOUS
        <5>1. CASE pc[v] \in {"laswp", "trsm", "gemm"}
          <6>1. Writes(v) = UpdatedColumns(v, p)
            BY <2>1, <5>1 DEF Writes
          <6>2. UpdatedColumns(0, p) \subseteq (p + Width(p))..(p + 2 * Width(p) - 1)
            BY <2>2, UpdatedApart
          <6>3. QED
            BY <2>3, <6>1, <6>2
        <5>2. CASE pc[v] = "getrf2"
          BY <2>1, <2>2, <2>3, <3>1, <5>2, SMTT(30) DEF Writes, NextPanel
        <5>3. CASE pc[v] \in {"adjust", "barrier"}
          BY <5>3 DEF Writes
        <5>4. QED
          BY <3>1, <5>1, <5>2, <5>3
      <4>2. QED
        BY <2>2, <2>3, <4>1, UpdatedApart
    <3>3. Writes(i) \cap Panel(p) = {}
      <4>1. \A c \in Writes(i) : c \in Int /\ c >= p + Width(p)
        BY <2>1, <2>2, <2>3, <3>1, UpdatedApart DEF Writes, NextPanel
      <4>2. QED
        BY <2>3, <4>1
    <3>4. PivotWrites(i) \cap PivotReads(k) = {}
      BY <2>1, <2>2, <2>3, <3>1 DEF PivotWrites, PivotReads, NextPanel
    <3>5. QED
      BY <2>1, <3>2, <3>3, <3>4 DEF Reads
  <2>7. QED
    BY <1>1, <2>4, <2>5, <2>6 DEF PInv, TypeOK
<1>2. QED
  BY <1>1, PInvInvariant, PTL
-----------------------------------------------------------------------------
(* Which panels are ready.  The panels start at 1, 1 + nb, 1 + 2 nb, ...   *)
HasFactor(c, p) == \E k \in 1..Len(col[c]) : col[c][k] = <<"factor", p>>
IsFactored(p) == \A c \in Panel(p) : HasFactor(c, p)
Ready(p) == IsFactored(p) /\ \A c \in Panel(p) : ipiv[c] = "absolute"

(* The panels up to the current one are ready, and the next one when       *)
(* thread 0 waits for the others; in the second region all are.            *)
ReadySoFar ==
  /\ region = "first" /\ pc[0] = "adjust" => IsFactored(1)
  /\ region = "update" =>
       /\ \E k \in Nat : j[0] = 1 + k * nb /\ \A l \in 0..k : Ready(1 + l * nb)
       /\ pc[0] = "adjust" => IsFactored(j[0] + nb)
       /\ pc[0] = "barrier" /\ j[0] + nb <= mn => Ready(j[0] + nb)
  /\ region = "left" =>
       /\ \E k \in Nat : j[0] = 1 + k * nb
       /\ \A l \in Nat : 1 + l * nb <= mn => Ready(1 + l * nb)

(* The operations on a column are only ever added to.                      *)
OnlyAppended ==
  \A c \in Column : col'[c] = col[c] \/ \E e : col'[c] = Append(col[c], e)

(* A call on some columns adds itself to these.                            *)
LEMMA ApplyAppends ==
  ASSUME TypeOK, NEW columns, NEW what, NEW p, Apply(columns, what, p)
  PROVE  /\ OnlyAppended
         /\ \A c \in Column : c \in columns => col'[c] = Append(col[c], <<what, p>>)
BY DEF Apply, OnlyAppended

(* What has been factored stays so.                                        *)
LEMMA FactorKept ==
  ASSUME TypeOK, prob' = prob, OnlyAppended, NEW p \in 1..mn, IsFactored(p)
  PROVE  IsFactored(p)'
<1>1. Panel(p)' = Panel(p) /\ Panel(p) \subseteq Column
  BY SamePanels, PanelFacts, Sizes, SMTT(30) DEF TypeOK, Column
<1>2. SUFFICES ASSUME NEW c \in Panel(p)
               PROVE  \E k \in 1..Len(col'[c]) : col'[c][k] = <<"factor", p>>
  BY <1>1 DEF IsFactored, HasFactor
<1>3. PICK k \in 1..Len(col[c]) : col[c][k] = <<"factor", p>>
  BY DEF IsFactored, HasFactor
<1>4. CASE col'[c] = col[c]
  BY <1>3, <1>4
<1>5. ASSUME NEW e, col'[c] = Append(col[c], e)
      PROVE  \E l \in 1..Len(col'[c]) : col'[c][l] = <<"factor", p>>
  <2> DEFINE s == col[c]
             f == <<"factor", p>>
  <2>1. s \in Seq({"swap", "solve", "update", "factor"} \X (1..mn))
    BY <1>1 DEF TypeOK
  <2>2. k \in 1..Len(s) /\ s[k] = f /\ col'[c] = Append(s, e)
    BY <1>3, <1>5
  <2> HIDE DEF s, f
  <2>3. Len(s) \in Nat /\ Len(Append(s, e)) = Len(s) + 1
    BY <2>1
  <2>4. k \in 1..Len(Append(s, e)) /\ Append(s, e)[k] = s[k]
    BY <2>1, <2>2, <2>3
  <2>5. \E l \in 1..Len(col'[c]) : col'[c][l] = f
    BY <2>2, <2>4
  <2>6. QED
    BY <2>5 DEF f
<1>6. QED
  BY <1>1, <1>4, <1>5 DEF OnlyAppended

(* dgetrf2 makes its panel factored.                                       *)
LEMMA FactorAdded ==
  ASSUME TypeOK, prob' = prob, NEW p \in 1..mn, Apply(Panel(p), "factor", p)
  PROVE  IsFactored(p)'
<1>1. Panel(p)' = Panel(p) /\ Panel(p) \subseteq Column
  BY SamePanels, PanelFacts, Sizes DEF TypeOK, Column
<1>2. SUFFICES ASSUME NEW c \in Panel(p)
               PROVE  \E k \in 1..Len(col'[c]) : col'[c][k] = <<"factor", p>>
  BY <1>1 DEF IsFactored, HasFactor
<1> DEFINE s == col[c]
           f == <<"factor", p>>
<1>3. s \in Seq({"swap", "solve", "update", "factor"} \X (1..mn))
  BY <1>1 DEF TypeOK
<1>4. col'[c] = Append(s, f)
  BY <1>1, ApplyAppends
<1> HIDE DEF s, f
<1>5. /\ Len(s) \in Nat /\ Len(Append(s, f)) = Len(s) + 1
      /\ Append(s, f)[Len(s) + 1] = f
  BY <1>3
<1>6. \E k \in 1..Len(col'[c]) : col'[c][k] = f
  BY <1>4, <1>5
<1>7. QED
  BY <1>6 DEF f

(* A panel stays ready while its pivots are left alone.                    *)
LEMMA ReadyKept ==
  ASSUME TypeOK, prob' = prob, OnlyAppended, NEW p \in 1..mn, Ready(p),
         \A c \in Panel(p) : ipiv'[c] \in {ipiv[c], "absolute"}
  PROVE  Ready(p)'
<1>1. Panel(p)' = Panel(p)
  BY SamePanels
<1>2. IsFactored(p)'
  BY FactorKept DEF Ready
<1>3. QED
  BY <1>1, <1>2 DEF Ready
-----------------------------------------------------------------------------
(* Panel k + 1 starts behind panel k.                                      *)
LEMMA PanelStarts ==
  ASSUME prob \in Problem, NEW k \in Nat, NEW l \in Nat
  PROVE  /\ 1 + k * nb \in Nat /\ 1 + k * nb >= 1 /\ 1 + (k + 1) * nb = 1 + k * nb + nb
         /\ l <= k => 1 + l * nb <= 1 + k * nb
<1>1. nb \in Nat
  BY Sizes
<1>2. k * nb \in Nat /\ (k + 1) * nb = k * nb + nb /\ l * nb \in Nat
  BY <1>1, Successor
<1>3. l <= k => l * nb <= k * nb
  BY <1>1, Monotone
<1>4. QED
  BY <1>1, <1>2, <1>3

LEMMA ReadyInit == Init => ReadySoFar
<1> SUFFICES ASSUME NEW p \in Problem, InitWith(p) PROVE ReadySoFar
  BY DEF Init
<1>1. 0 \in Thread
  BY Sizes DEF InitWith
<1>2. QED
  BY <1>1 DEF InitWith, ReadySoFar

(* A call in a parallel region.                                            *)
LEMMA StepReady == ASSUME PInv, ReadySoFar, NEW i \in Thread, Step(i) PROVE ReadySoFar'
<1>1. /\ prob \in Problem /\ prob' = prob /\ region' = region /\ j' = j
      /\ region \in {"update", "left"} /\ TypeOK /\ j[0] \in 1..mn
  BY Sizes DEF Step, Swap, Solve, Update, FactorNext, AdjustNext, SwapLeft, PInv, TypeOK, Places
<1>2. nb' = nb /\ mn' = mn /\ nb \in Nat /\ nb > 0 /\ mn \in Nat /\ 0 \in Thread
  BY <1>1, SameProblem, Sizes
<1>3. OnlyAppended
  <2>1. CASE AdjustNext(i)
    BY <2>1 DEF AdjustNext, OnlyAppended
  <2>2. CASE FactorNext(i)
    BY <1>1, <2>2, ApplyAppends DEF FactorNext, Factor
  <2>3. CASE Swap(i) \/ Solve(i) \/ Update(i) \/ SwapLeft(i)
    BY <1>1, <2>3, ApplyAppends DEF Swap, Solve, Update, SwapLeft
  <2>4. QED
    BY <2>1, <2>2, <2>3 DEF Step
<1>4. ASSUME NEW p \in 1..mn, Ready(p), p <= j[0] \/ region = "left"
      PROVE  Ready(p)'
  <2>1. ASSUME NEW c \in Panel(p)
        PROVE  ipiv'[c] \in {ipiv[c], "absolute"}
    <3>1. CASE Swap(i) \/ Solve(i) \/ Update(i) \/ SwapLeft(i)
      BY <3>1 DEF Swap, Solve, Update, SwapLeft
    <3>2. CASE FactorNext(i) \/ AdjustNext(i)
      <4>1. region = "update" /\ i = 0 /\ j[0] + nb \in 1..mn
        BY <1>1, <1>2, <3>2 DEF FactorNext, AdjustNext, PInv, Places, NextPanel
      <4>2. p <= j[0] /\ Panel(p) \subseteq p..(p + nb - 1) /\ c \in 1..mn
        BY <1>1, <1>4, <4>1, PanelFacts
      <4>3. Panel(j[0] + nb) \subseteq (j[0] + nb)..(j[0] + nb + nb - 1)
        BY <1>1, <4>1, PanelFacts
      <4>4. c \notin Panel(j[0] + nb)
        BY <1>1, <1>2, <4>2, <4>3
      <4>5. QED
        BY <3>2, <4>1, <4>2, <4>4
           DEF FactorNext, Factor, AdjustNext, Adjust, SetPivots, NextPanel
    <3>3. QED
      BY <3>1, <3>2 DEF Step
  <2>2. QED
    BY <1>1, <1>3, <1>4, <2>1, ReadyKept
<1>5. CASE region = "left"
  <2>1. ASSUME NEW l \in Nat, 1 + l * nb <= mn
        PROVE  Ready(1 + l * nb)'
    <3>1. PICK p \in 1..mn : p = 1 + l * nb
      BY <1>1, <1>2, <2>1, PanelStarts
    <3>2. Ready(p)'
      BY <1>4, <1>5, <2>1, <3>1 DEF ReadySoFar
    <3>3. QED
      BY <1>2, <3>1, <3>2
  <2>2. QED
    BY <1>1, <1>2, <1>5, <2>1 DEF ReadySoFar
<1>6. CASE region = "update"
  <2>1. PICK k \in Nat : j[0] = 1 + k * nb /\ \A l \in 0..k : Ready(1 + l * nb)
    BY <1>6 DEF ReadySoFar
  <2>2. \A l \in 0..k : Ready(1 + l * nb)'
    <3> SUFFICES ASSUME NEW l \in 0..k PROVE Ready(1 + l * nb)'
      OBVIOUS
    <3>1. PICK p \in 1..mn : p = 1 + l * nb /\ p <= j[0]
      BY <1>1, <1>2, <2>1, PanelStarts
    <3>2. Ready(p)'
      BY <1>4, <2>1, <3>1
    <3>3. QED
      BY <1>2, <3>1, <3>2
  <2>3. ASSUME pc'[0] = "adjust"
        PROVE  IsFactored(j[0] + nb)'
    <3>1. PICK q \in 1..mn : q = j[0] + nb
      <4>1. i # 0 => pc[0] = "adjust"
        BY <1>1, <1>2, <2>3
           DEF Step, Swap, Solve, Update, FactorNext, AdjustNext, SwapLeft, Goto, PInv, TypeOK
      <4>2. i = 0 => FactorNext(0) \/ pc[0] = "adjust"
        BY <1>1, <1>2, <2>3
           DEF Step, Swap, Solve, Update, AdjustNext, SwapLeft, Goto, AfterUpdate, PInv, TypeOK
      <4>3. QED
        BY <1>1, <1>2, <1>6, <4>1, <4>2 DEF FactorNext, PInv, Places, NextPanel
    <3>2. IsFactored(q)'
      <4>1. CASE FactorNext(i)
        <5>1. Apply(Panel(q), "factor", q)
          BY <1>1, <3>1, <4>1 DEF FactorNext, Factor, NextPanel, PInv, InStep
        <5>2. QED
          BY <1>1, <5>1, FactorAdded
      <4>2. CASE ~FactorNext(i)
        <5>1. pc[0] = "adjust"
          BY <1>1, <1>2, <2>3, <4>2
             DEF Step, Swap, Solve, Update, AdjustNext, SwapLeft, Goto, AfterUpdate, PInv, TypeOK
        <5>2. IsFactored(q)
          BY <1>6, <3>1, <5>1 DEF ReadySoFar
        <5>3. QED
          BY <1>1, <1>3, <5>2, FactorKept
      <4>3. QED
        BY <4>1, <4>2
    <3>3. QED
      BY <1>1, <1>2, <3>1, <3>2
  <2>4. ASSUME pc'[0] = "barrier", j[0] + nb <= mn
        PROVE  Ready(j[0] + nb)'
    <3>1. PICK q \in 1..mn : q = j[0] + nb
      BY <1>1, <1>2, <2>4
    <3>2. Ready(q)'
      <4>1. CASE i = 0
        <5>1. AdjustNext(0)
          BY <1>1, <1>2, <1>6, <2>4, <4>1
             DEF Step, Swap, Solve, Update, FactorNext, SwapLeft, Goto, AfterUpdate,
                 NextPanel, PInv, TypeOK, Places
        <5>2. /\ IsFactored(q)
              /\ ipiv' = [c \in 1..mn |-> IF c \in Panel(q) THEN "absolute" ELSE ipiv[c]]
          BY <1>6, <3>1, <5>1 DEF AdjustNext, Adjust, SetPivots, NextPanel, ReadySoFar
        <5>3. IsFactored(q)'
          BY <1>1, <1>3, <5>2, FactorKept
        <5>4. Panel(q)' = Panel(q) /\ Panel(q) \subseteq 1..mn
          BY <1>1, SamePanels, PanelFacts
        <5>5. QED
          BY <5>2, <5>3, <5>4 DEF Ready
      <4>2. CASE i # 0
        <5>1. pc[0] = "barrier" /\ ~FactorNext(i) /\ ~AdjustNext(i)
          BY <1>1, <1>2, <1>6, <2>4, <4>2
             DEF Step, Swap, Solve, Update, FactorNext, AdjustNext, SwapLeft, Goto,
                 PInv, TypeOK, Places
        <5>2. Ready(q) /\ ipiv' = ipiv
          BY <1>6, <2>4, <3>1, <5>1 DEF ReadySoFar, Step, Swap, Solve, Update, SwapLeft
        <5>3. QED
          BY <1>1, <1>3, <5>2, ReadyKept
      <4>3. QED
        BY <4>1, <4>2
    <3>3. QED
      BY <1>1, <1>2, <3>1, <3>2
  <2>5. QED
    BY <1>1, <1>2, <1>6, <2>1, <2>2, <2>3, <2>4 DEF ReadySoFar
<1>7. QED
  BY <1>1, <1>5, <1>6

(* The steps of the whole team.                                            *)
LEMMA TeamReady == ASSUME PInv, ReadySoFar, Team PROVE ReadySoFar'
<1>1. prob \in Problem /\ prob' = prob /\ TypeOK /\ j[0] \in 1..mn
  BY Sizes DEF Team, FactorFirst, AdjustFirst, NextIteration, EndRegion, PInv, TypeOK
<1>2. /\ nb' = nb /\ mn' = mn /\ Thread' = Thread
      /\ nb \in Nat /\ nb > 0 /\ mn \in Nat /\ mn > 0 /\ 0 \in Thread
  BY <1>1, SameProblem, Sizes
<1>3. PICK one \in 1..mn : one = 1
  BY <1>2
<1>4. 1 + 0 * nb = 1
  BY <1>2, Z3
<1>5. CASE FactorFirst
  <2>1. Apply(Panel(one), "factor", one) /\ region' = "first"
    BY <1>3, <1>5 DEF FactorFirst, Factor
  <2>2. IsFactored(one)'
    BY <1>1, <2>1, FactorAdded
  <2>3. QED
    BY <1>3, <2>1, <2>2 DEF ReadySoFar
<1>6. CASE AdjustFirst
  <2>1. /\ region' = "update" /\ j' = j /\ j[0] = one /\ IsFactored(one) /\ col' = col
        /\ ipiv' = [c \in 1..mn |-> IF c \in Panel(one) THEN "absolute" ELSE ipiv[c]]
        /\ pc'[0] = "laswp"
    BY <1>2, <1>3, <1>6
       DEF AdjustFirst, Adjust, SetPivots, ReadySoFar, PInv, Places, Begin
  <2>2. IsFactored(one)'
    BY <1>1, <2>1, FactorKept DEF OnlyAppended
  <2>3. Panel(one)' = Panel(one) /\ Panel(one) \subseteq 1..mn
    BY <1>1, SamePanels, PanelFacts
  <2>4. Ready(one)'
    BY <2>1, <2>2, <2>3 DEF Ready
  <2>5. /\ j'[0] = 1 + 0 * nb' /\ \A l \in 0..0 : Ready(1 + l * nb)'
    BY <1>2, <1>3, <1>4, <2>1, <2>4
  <2>6. QED
    BY <2>1, <2>5 DEF ReadySoFar
<1>7. ASSUME NEW p \in 1..mn, Ready(p), NextIteration \/ EndRegion
      PROVE  Ready(p)'
  BY <1>1, <1>7, ReadyKept DEF NextIteration, EndRegion, OnlyAppended
<1>8. ASSUME region = "left", region' = "left", NextIteration \/ EndRegion,
             NEW l \in Nat, 1 + l * nb <= mn
      PROVE  Ready(1 + l * nb)'
  <2>1. PICK p \in 1..mn : p = 1 + l * nb
    BY <1>1, <1>2, <1>8, PanelStarts
  <2>2. Ready(p)'
    BY <1>7, <1>8, <2>1 DEF ReadySoFar
  <2>3. QED
    BY <1>2, <2>1, <2>2
<1>9. CASE NextIteration
  <2>1. /\ region' = region /\ region \in {"update", "left"} /\ j[0] + nb <= mn
        /\ pc[0] = "barrier" /\ j'[0] = j[0] + nb
        /\ region = "update" => pc'[0] = "laswp"
    BY <1>2, <1>9 DEF NextIteration, MorePanels, AllWait, Begin
  <2>2. PICK k \in Nat : j[0] = 1 + k * nb
                         /\ (region = "update" => \A l \in 0..k : Ready(1 + l * nb))
    BY <2>1 DEF ReadySoFar
  <2>3. j'[0] = 1 + (k + 1) * nb'
    BY <1>1, <1>2, <2>1, <2>2, PanelStarts
  <2>4. ASSUME region = "update", NEW l \in 0..(k + 1)
        PROVE  Ready(1 + l * nb)'
    <3>1. PICK p \in 1..mn : p = 1 + l * nb
      BY <1>1, <1>2, <2>1, <2>2, <2>3, PanelStarts
    <3>2. Ready(p)
      <4>1. CASE l <= k
        BY <2>2, <2>4, <3>1, <4>1
      <4>2. CASE l = k + 1
        BY <1>2, <2>1, <2>3, <2>4, <3>1, <4>2 DEF ReadySoFar
      <4>3. QED
        BY <4>1, <4>2
    <3>3. Ready(p)'
      BY <1>7, <1>9, <3>2
    <3>4. QED
      BY <1>2, <3>1, <3>3
  <2>5. CASE region = "update"
    <3>1. \A l \in 0..(k + 1) : Ready(1 + l * nb)'
      BY <2>4, <2>5
    <3>2. k + 1 \in Nat
      OBVIOUS
    <3>3. QED
      BY <2>1, <2>3, <2>5, <3>1, <3>2 DEF ReadySoFar
  <2>6. CASE region = "left"
    <3>1. k + 1 \in Nat /\ \A l \in Nat : 1 + l * nb <= mn => Ready(1 + l * nb)'
      BY <1>8, <1>9, <2>1, <2>6
    <3>2. QED
      BY <1>2, <2>1, <2>3, <2>6, <3>1 DEF ReadySoFar
  <2>7. QED
    BY <2>1, <2>5, <2>6
<1>10. CASE EndRegion
  <2>1. region = "left" => region' = "done"
    BY <1>10 DEF EndRegion
  <2>2. CASE region = "update"
    <3>1. region' = "left" /\ j'[0] = 1 + 0 * nb' /\ j[0] + nb > mn
      BY <1>1, <1>2, <1>4, <1>10, <2>2 DEF EndRegion, MorePanels
    <3>2. PICK k \in Nat : j[0] = 1 + k * nb /\ \A l \in 0..k : Ready(1 + l * nb)
      BY <2>2 DEF ReadySoFar
    <3>3. ASSUME NEW l \in Nat, 1 + l * nb <= mn
          PROVE  Ready(1 + l * nb)'
      <4>1. PICK p \in 1..mn : p = 1 + l * nb
        BY <1>1, <1>2, <3>3, PanelStarts
      <4>2. l <= k
        <5>1. k + 1 <= l => 1 + (k + 1) * nb <= 1 + l * nb
          BY <1>1, PanelStarts
        <5>2. 1 + (k + 1) * nb = j[0] + nb
          BY <1>1, <3>2, PanelStarts
        <5>3. QED
          BY <1>1, <1>2, <3>1, <3>3, <4>1, <5>1, <5>2
      <4>3. Ready(p)'
        BY <1>7, <1>10, <3>2, <4>1, <4>2
      <4>4. QED
        BY <1>2, <4>1, <4>3
    <3>4. QED
      BY <1>2, <3>1, <3>3 DEF ReadySoFar
  <2>3. QED
    BY <1>10, <2>1, <2>2 DEF EndRegion, ReadySoFar
<1>11. QED
  BY <1>5, <1>6, <1>9, <1>10 DEF Team

(* A thread applies a panel, or interchanges the rows on its left, only    *)
(* when thread 0 has factored it and made its pivots absolute.             *)
THEOREM PanelsReady == Spec => []PanelReady
<1>1. PInv /\ ReadySoFar /\ [Next]_vars => ReadySoFar'
  <2> SUFFICES ASSUME PInv, ReadySoFar, [Next]_vars PROVE ReadySoFar'
    OBVIOUS
  <2>1. CASE UNCHANGED vars
    <3>1. prob' = prob
      BY <2>1 DEF vars
    <3>2. \A p : Panel(p)' = Panel(p)
      BY <3>1, SamePanels
    <3>3. nb' = nb /\ mn' = mn
      BY <3>1, SameProblem
    <3>4. \A p : (IsFactored(p)' <=> IsFactored(p)) /\ (Ready(p)' <=> Ready(p))
      BY <2>1, <3>2 DEF Ready, IsFactored, HasFactor, vars
    <3>5. QED
      BY <2>1, <3>3, <3>4 DEF ReadySoFar, vars
  <2>2. QED
    BY <2>1, StepReady, TeamReady DEF Next
<1>2. ASSUME PInv, ReadySoFar
      PROVE  PanelReady
  <2> SUFFICES ASSUME NEW i \in Thread, pc[i] \in {"laswp", "trsm", "gemm", "left"}
               PROVE  Ready(j[i])
    BY DEF PanelReady, Ready, IsFactored, HasFactor
  <2>1. prob \in Problem /\ j[i] = j[0] /\ j[0] \in 1..mn /\ nb \in Nat /\ mn \in Nat
    BY <1>2, Sizes DEF PInv, InStep, TypeOK
  <2>2. region \in {"update", "left"}
    BY <1>2, Sizes DEF PInv, Places, TypeOK
  <2>3. PICK k \in Nat : j[0] = 1 + k * nb
                         /\ (region = "update" => \A l \in 0..k : Ready(1 + l * nb))
    BY <1>2, <2>2 DEF ReadySoFar
  <2>4. QED
    BY <1>2, <2>1, <2>2, <2>3 DEF ReadySoFar
<1>3. QED
  BY ReadyInit, PInvInvariant, <1>1, <1>2, PTL DEF Spec
-----------------------------------------------------------------------------
(* Where the panels start.                                                 *)

(* A remainder is unique.                                                  *)
LEMMA Remainder ==
  ASSUME NEW b \in Nat, b > 0, NEW q \in Nat, NEW r \in Nat, r < b
  PROVE  q * b \in Nat /\ (q * b + r) % b = r
<1>1. q * b \in Nat
  BY Successor
<1>2. PICK a \in Nat : a = q * b + r
  BY <1>1
<1>3. PICK d \in Nat : /\ d = a \div b /\ a % b \in Nat /\ a % b < b
                       /\ a = d * b + (a % b)
  BY Quotient
<1>4. (d + 1) * b = d * b + b /\ (q + 1) * b = q * b + b /\ d * b \in Nat
  BY Successor
<1>5. d + 1 <= q => (d + 1) * b <= q * b
  BY Monotone
<1>6. q + 1 <= d => (q + 1) * b <= d * b
  BY Monotone
<1>7. d = q
  BY <1>1, <1>2, <1>3, <1>4, <1>5, <1>6
<1> QED
  BY <1>1, <1>2, <1>3, <1>7

LEMMA SameRemainder ==
  ASSUME NEW b \in Nat, b > 0, NEW a \in Nat, NEW e \in Nat, e < b
  PROVE  /\ (a + b) % b = a % b
         /\ e > 0 => (a + e) % b # a % b
<1>1. PICK d \in Nat, r \in Nat : r = a % b /\ r < b /\ a = d * b + r
  BY Quotient
<1>2. (d + 1) * b = d * b + b /\ d * b \in Nat
  BY Successor
<1>3. (a + b) % b = r
  <2>1. a + b = (d + 1) * b + r
    BY <1>1, <1>2
  <2> QED
    BY <1>1, <2>1, Remainder
<1>4. ASSUME e > 0 PROVE (a + e) % b # r
  <2>1. CASE r + e < b
    <3>1. PICK f \in Nat : f = r + e
      OBVIOUS
    <3>2. a + e = d * b + f
      BY <1>1, <1>2, <3>1
    <3>3. (a + e) % b = f
      BY <2>1, <3>1, <3>2, Remainder
    <3> QED
      BY <1>4, <3>1, <3>3
  <2>2. CASE r + e >= b
    <3>1. PICK f \in Nat : f + b = r + e /\ f < b
      <4>1. r + e - b \in Nat
        BY <2>2
      <4> QED
        BY <1>1, <4>1
    <3>2. PICK g \in Nat : g = d + 1
      OBVIOUS
    <3>3. a + e = g * b + f
      BY <1>1, <1>2, <3>1, <3>2
    <3>4. (g * b + f) % b = f
      BY <3>1, Remainder
    <3>5. (a + e) % b = f
      BY <3>3, <3>4
    <3> QED
      BY <1>1, <1>4, <3>1, <3>5
  <2> QED
    BY <1>1, <2>1, <2>2
<1> QED
  BY <1>1, <1>3, <1>4

(* From a panel to the next there are nb columns.                          *)
LEMMA PanelsApart ==
  ASSUME prob \in Problem
  PROVE  /\ 1 \in Panels
         /\ \A p \in Panels : /\ p \in 1..mn
                              /\ p + nb <= mn => p + nb \in Panels
                              /\ \A q \in (p + 1)..(p + nb - 1) : q \notin Panels
<1>1. nb \in Nat /\ nb > 0 /\ mn \in Nat /\ mn > 0
  BY Sizes
<1>2. 1 \in Panels
  BY <1>1 DEF Panels
<1>3. ASSUME NEW p \in Panels
      PROVE  /\ p \in 1..mn
             /\ p + nb <= mn => p + nb \in Panels
             /\ \A q \in (p + 1)..(p + nb - 1) : q \notin Panels
  <2>1. p \in 1..mn /\ p \in Nat /\ p % nb = 1 % nb
    BY <1>1 DEF Panels
  <2>2. (p + nb) % nb = 1 % nb
    BY <1>1, <2>1, SameRemainder
  <2>3. ASSUME NEW q \in (p + 1)..(p + nb - 1), q \in Panels PROVE FALSE
    <3>1. PICK e \in Nat : e > 0 /\ e < nb /\ q = p + e
      <4>1. q - p \in Nat /\ q - p > 0 /\ q - p < nb /\ q = p + (q - p)
        BY <1>1, <2>1
      <4> QED
        BY <4>1
    <3>2. q % nb # 1 % nb
      BY <1>1, <2>1, <3>1, SameRemainder
    <3> QED
      BY <2>3, <3>2 DEF Panels
  <2>4. p + nb <= mn => p + nb \in Panels
    BY <1>1, <2>1, <2>2 DEF Panels
  <2> QED
    BY <2>1, <2>3, <2>4
<1> QED
  BY <1>2, <1>3

-----------------------------------------------------------------------------
(* The history of a column in the factorisation by one thread: after the   *)
(* panels up to k, h[k].                                                   *)
Item == Operations \X (1..mn)
Adds(c, k) == IF k \in Panels THEN Sequential(c, k) ELSE <<>>
IsHistory(h, c) == h = [k \in 0..mn |-> IF k = 0 THEN <<>> ELSE h[k - 1] \o Adds(c, k)]

LEMMA AddsIsSeq ==
  ASSUME prob \in Problem, NEW c \in Column, NEW k \in 1..mn
  PROVE  Adds(c, k) \in Seq(Item)
<1>1. /\ <<"swap", k>> \in Item /\ <<"solve", k>> \in Item /\ <<"update", k>> \in Item
      /\ <<"factor", k>> \in Item
  BY DEF Item, Operations
<1> DEFINE w == <<"swap", k>>
           s == <<"solve", k>>
           u == <<"update", k>>
           f == <<"factor", k>>
<1>2. w \in Item /\ s \in Item /\ u \in Item /\ f \in Item
  BY <1>1
<1>3. Width(k) \in Nat /\ k \in Nat /\ c \in Nat /\ Panel(k) = k..(k + Width(k) - 1)
  BY Sizes, PanelFacts DEF Column, Panel
<1>4. Sequential(c, k) \in {<<w, s>> \o <<u>>, <<w, s>> \o <<>>, <<f>>, <<w>>}
  <2>1. CASE c >= k + Width(k)
    <3>1. Sequential(c, k) = <<w, s>> \o IF k + Width(k) <= m THEN <<u>> ELSE <<>>
      BY <1>3, <2>1 DEF Sequential
    <3> HIDE DEF w, s, u, f
    <3> QED
      BY <3>1
  <2>2. CASE c \in Panel(k)
    <3>1. ~(c >= k + Width(k)) /\ ~(c < k)
      BY <1>3, <2>2
    <3> QED
      BY <2>2, <3>1 DEF Sequential
  <2>3. CASE c < k
    <3>1. ~(c >= k + Width(k)) /\ c \notin Panel(k)
      BY <1>3, <2>3
    <3> QED
      BY <2>3, <3>1 DEF Sequential
  <2>4. c >= k + Width(k) \/ c \in Panel(k) \/ c < k
    BY <1>3
  <2> QED
    BY <2>1, <2>2, <2>3, <2>4
<1> HIDE DEF w, s, u, f
<1>5. <<w, s>> \in Seq(Item) /\ <<u>> \in Seq(Item) /\ <<f>> \in Seq(Item) /\ <<w>> \in Seq(Item)
      /\ <<>> \in Seq(Item)
  BY <1>2
<1>6. <<w, s>> \o <<u>> \in Seq(Item) /\ <<w, s>> \o <<>> \in Seq(Item)
  BY <1>5, ConcatProperties
<1> QED
  BY <1>4, <1>5, <1>6 DEF Adds

(* Every column has a history.                                             *)
LEMMA HistoryExists ==
  ASSUME prob \in Problem, NEW c
  PROVE  \E h : IsHistory(h, c)
<1> DEFINE Some(k) == \E h : h = [l \in 0..k |-> IF l = 0 THEN <<>> ELSE h[l - 1] \o Adds(c, l)]
           S == {k \in 0..mn : ~Some(k)}
<1>1. mn \in Nat
  BY Sizes
<1>2. CASE S = {}
  <2>1. mn \in 0..mn
    BY <1>1
  <2> HIDE DEF Some
  <2>2. Some(mn)
    BY <1>2, <2>1
  <2> USE DEF Some
  <2> QED
    BY <2>2 DEF IsHistory
<1>3. CASE S # {}
  <2>1. S \subseteq Nat
    BY <1>1
  <2> HIDE DEF S
  <2>2. PICK k \in S : \A l \in S : k <= l
    BY <1>3, <2>1, LeastOf
  <2> USE DEF S
  <2>3. k \in 0..mn /\ ~Some(k)
    OBVIOUS
  <2>4. k # 0
    <3> SUFFICES ASSUME k = 0 PROVE FALSE
      OBVIOUS
    <3> DEFINE e == [l \in 0..0 |-> <<>>]
    <3>1. e = [l \in 0..0 |-> IF l = 0 THEN <<>> ELSE e[l - 1] \o Adds(c, l)]
      OBVIOUS
    <3> HIDE DEF e
    <3> QED
      BY <2>3, <3>1
  <2>5. k - 1 \in 0..mn /\ ~(k <= k - 1)
    BY <1>1, <2>3, <2>4
  <2>6. Some(k - 1)
    BY <2>2, <2>5
  <2>7. PICK f : f = [l \in 0..(k - 1) |-> IF l = 0 THEN <<>> ELSE f[l - 1] \o Adds(c, l)]
    BY <2>6
  <2> HIDE DEF S
  <2> DEFINE e == [l \in 0..k |-> IF l = k THEN f[k - 1] \o Adds(c, k) ELSE f[l]]
  <2>8. ASSUME NEW l \in 0..k
        PROVE  e[l] = IF l = 0 THEN <<>> ELSE e[l - 1] \o Adds(c, l)
    <3>1. CASE l = k
      <4>1. k - 1 \in 0..k /\ k - 1 # k
        BY <1>1, <2>3, <2>5
      <4>2. e[k - 1] = f[k - 1] /\ e[k] = f[k - 1] \o Adds(c, k)
        BY <2>8, <3>1, <4>1
      <4> QED
        BY <2>4, <3>1, <4>2
    <3>2. CASE l # k
      <4>1. l \in 0..(k - 1) /\ (l # 0 => l - 1 \in 0..k /\ l - 1 # k)
        BY <1>1, <2>3, <2>8, <3>2
      <4>2. f[l] = IF l = 0 THEN <<>> ELSE f[l - 1] \o Adds(c, l)
        BY <2>7, <4>1
      <4>3. e[l] = f[l] /\ (l # 0 => e[l - 1] = f[l - 1])
        BY <3>2, <4>1
      <4> QED
        BY <4>2, <4>3
    <3> QED
      BY <3>1, <3>2
  <2>9. e = [l \in 0..k |-> IF l = 0 THEN <<>> ELSE e[l - 1] \o Adds(c, l)]
    <3>1. [l \in 0..k |-> e[l]] = [l \in 0..k |-> IF l = 0 THEN <<>> ELSE e[l - 1] \o Adds(c, l)]
      BY <2>8
    <3>2. e = [l \in 0..k |-> e[l]]
      OBVIOUS
    <3> HIDE DEF e
    <3> QED
      BY <3>1, <3>2
  <2> HIDE DEF e
  <2> QED
    BY <2>3, <2>9
<1> QED
  BY <1>2, <1>3

LEMMA HistoryGrows ==
  ASSUME prob \in Problem, NEW c \in Column, NEW h, IsHistory(h, c)
  PROVE  /\ h[0] = <<>>
         /\ \A k \in 1..mn : h[k] = h[k - 1] \o Adds(c, k)
         /\ \A k \in 0..mn : h[k] \in Seq(Item)
<1>1. mn \in Nat
  BY Sizes
<1>2. h[0] = <<>>
  BY <1>1 DEF IsHistory
<1>3. ASSUME NEW k \in 1..mn PROVE h[k] = h[k - 1] \o Adds(c, k)
  <2>1. k \in 0..mn /\ k # 0
    BY <1>1
  <2> QED
    BY <2>1 DEF IsHistory
<1> DEFINE S == {k \in 0..mn : h[k] \notin Seq(Item)}
<1>4. S = {}
  <2> SUFFICES ASSUME S # {} PROVE FALSE
    OBVIOUS
  <2>1. S \subseteq Nat
    BY <1>1
  <2> HIDE DEF S
  <2>2. PICK k \in S : \A l \in S : k <= l
    BY <2>1, LeastOf
  <2> USE DEF S
  <2>3. k \in 0..mn /\ h[k] \notin Seq(Item)
    OBVIOUS
  <2>4. k # 0
    <3>1. <<>> \in Seq(Item)
      OBVIOUS
    <3> QED
      BY <1>2, <2>3, <3>1
  <2>5. k \in 1..mn /\ k - 1 \in 0..mn /\ ~(k <= k - 1)
    BY <1>1, <2>3, <2>4
  <2>6. h[k - 1] \in Seq(Item)
    BY <2>2, <2>5
  <2>7. Adds(c, k) \in Seq(Item)
    BY <2>5, AddsIsSeq
  <2>8. h[k - 1] \o Adds(c, k) \in Seq(Item)
    BY <2>6, <2>7, ConcatProperties
  <2> QED
    BY <1>3, <2>3, <2>5, <2>8
<1> QED
  BY <1>2, <1>3, <1>4

(* Between two panels a history does not change.                           *)
LEMMA HistoryRests ==
  ASSUME prob \in Problem, NEW c \in Column, NEW h, IsHistory(h, c),
         NEW p \in Panels, NEW k \in 1..mn, p <= k, k < p + nb
  PROVE  h[k] = h[p]
<1>1. mn \in Nat /\ nb \in Nat /\ p \in 1..mn /\ p \in Nat
  BY Sizes, PanelsApart
<1> DEFINE S == {l \in p..k : h[l] # h[p]}
<1>2. S = {}
  <2> SUFFICES ASSUME S # {} PROVE FALSE
    OBVIOUS
  <2>1. S \subseteq Nat
    BY <1>1
  <2> HIDE DEF S
  <2>2. PICK l \in S : \A i \in S : l <= i
    BY <2>1, LeastOf
  <2> USE DEF S
  <2>3. l \in p..k /\ h[l] # h[p] /\ l # p
    OBVIOUS
  <2>4. l \in (p + 1)..(p + nb - 1) /\ l \in 1..mn /\ l - 1 \in p..k /\ l - 1 \in 0..mn /\ ~(l <= l - 1)
    BY <1>1, <2>3
  <2>5. h[l - 1] = h[p]
    BY <2>2, <2>4
  <2>6. Adds(c, l) = <<>>
    BY <2>4, PanelsApart DEF Adds
  <2>7. h[l - 1] \o <<>> = h[l - 1]
    BY <2>4, HistoryGrows, ConcatEmptySeq
  <2> QED
    BY <2>3, <2>4, <2>5, <2>6, <2>7, HistoryGrows
<1>3. k \in p..k
  BY <1>1
<1> QED
  BY <1>2, <1>3

(* What a panel does to a column on its right, in it and on its left.      *)
LEMMA HistoryRight ==
  ASSUME prob \in Problem, NEW c \in Column, NEW h, IsHistory(h, c),
         NEW p \in Panels, c >= p + Width(p)
  PROVE  LET s == Append(Append(h[p - 1], <<"swap", p>>), <<"solve", p>>)
         IN  h[p] = IF p + Width(p) <= m THEN Append(s, <<"update", p>>) ELSE s
<1>0. p \in 1..mn /\ mn \in Nat /\ nb \in Nat /\ c \in 1..n /\ n \in Nat
  BY Sizes, PanelsApart DEF Column
<1>1. p \in Nat /\ p - 1 \in 0..mn /\ p \in 1..mn /\ c \in Nat /\ Width(p) \in Nat
      /\ Width(p) > 0
  BY <1>0, PanelFacts
<1> DEFINE w == <<"swap", p>>
           s == <<"solve", p>>
           u == <<"update", p>>
<1>2. w \in Item /\ s \in Item /\ u \in Item
  BY <1>1 DEF Item, Operations
<1>3. Adds(c, p) = <<w, s>> \o IF p + Width(p) <= m THEN <<u>> ELSE <<>>
  <2>1. c \notin Panel(p) /\ ~(c < p)
    BY <1>1 DEF Panel
  <2>2. Adds(c, p) = Sequential(c, p)
    BY DEF Adds
  <2> QED
    BY <2>1, <2>2 DEF Sequential
<1> HIDE DEF w, s, u
<1>4. PICK g \in Seq(Item) : g = h[p - 1] /\ h[p] = g \o Adds(c, p)
  BY <1>1, HistoryGrows
<1>5. g \o <<w, s>> = Append(Append(g, w), s)
  BY <1>2
<1>6. g \o (<<w, s>> \o <<u>>) = Append(Append(Append(g, w), s), u)
  BY <1>2
<1>7. <<w, s>> \o <<>> = <<w, s>>
  BY <1>2
<1> QED
  BY <1>3, <1>4, <1>5, <1>6, <1>7 DEF w, s, u

LEMMA HistoryIn ==
  ASSUME prob \in Problem, NEW c \in Column, NEW h, IsHistory(h, c),
         NEW p \in Panels, c \in Panel(p)
  PROVE  h[c] = Append(h[p - 1], <<"factor", p>>) /\ h[c] = h[p] /\ c \in 1..mn
<1>1. p \in 1..mn /\ p \in Nat /\ p - 1 \in 0..mn /\ c \in Nat /\ Width(p) \in 1..nb /\ nb \in Nat
      /\ c \in 1..mn /\ p <= c /\ c < p + Width(p)
  BY Sizes, PanelsApart, PanelFacts DEF Column, Panel
<1> DEFINE f == <<"factor", p>>
<1>2. f \in Item
  BY <1>1 DEF Item, Operations
<1>3. Adds(c, p) = <<f>>
  <2>1. ~(c >= p + Width(p)) /\ ~(c < p)
    BY <1>1
  <2> QED
    BY <2>1 DEF Adds, Sequential
<1> HIDE DEF f
<1>4. PICK g \in Seq(Item) : g = h[p - 1] /\ h[p] = g \o Adds(c, p)
  BY <1>1, HistoryGrows
<1>5. g \o <<f>> = Append(g, f)
  BY <1>2
<1>6. h[c] = h[p]
  <2>1. c < p + nb
    BY <1>1
  <2> QED
    BY <1>1, <2>1, HistoryRests
<1> QED
  BY <1>1, <1>3, <1>4, <1>5, <1>6 DEF f

LEMMA HistoryLeft ==
  ASSUME prob \in Problem, NEW c \in Column, NEW h, IsHistory(h, c),
         NEW p \in Panels, c < p
  PROVE  h[p] = Append(h[p - 1], <<"swap", p>>)
<1>0. p \in 1..mn /\ mn \in Nat /\ nb \in Nat /\ c \in 1..n /\ n \in Nat
  BY Sizes, PanelsApart DEF Column
<1>1. p \in 1..mn /\ p \in Nat /\ p - 1 \in 0..mn /\ c \in Nat /\ Width(p) \in 1..nb /\ nb \in Nat
  BY <1>0, PanelFacts
<1> DEFINE w == <<"swap", p>>
<1>2. w \in Item
  BY <1>1 DEF Item, Operations
<1>3. Adds(c, p) = <<w>>
  <2>1. ~(c >= p + Width(p)) /\ c \notin Panel(p)
    BY <1>1 DEF Panel
  <2> QED
    BY <2>1 DEF Adds, Sequential
<1> HIDE DEF w
<1>4. PICK g \in Seq(Item) : g = h[p - 1] /\ h[p] = g \o Adds(c, p)
  BY <1>1, HistoryGrows
<1>5. g \o <<w>> = Append(g, w)
  BY <1>2
<1> QED
  BY <1>3, <1>4, <1>5 DEF w

-----------------------------------------------------------------------------
(* Which thread works on a column.                                         *)

(* The team has the threads that were asked for.                           *)
FullTeam == prob.team = prob.n_threads

(* The parts leave nothing out.                                            *)
LEMMA PartCovers ==
  ASSUME NEW N \in Nat, N > 0, NEW range \in Nat, NEW from \in Int,
         NEW c \in from..(from + range - 1)
  PROVE  \E t \in 0..(N - 1) : c \in PartOf(t, N, range, from)
<1> DEFINE s == [v \in 0..(N - 1) |-> FLA_Thread_get_subrange(v, N, range)]
<1>1. range > 0
  OBVIOUS
<1>2. Tiles(s, N, range)
  BY <1>1, SubrangeTiles
<1>3. \A v \in 0..(N - 1) : FLA_Thread_get_subrange(v, N, range) = s[v]
  OBVIOUS
<1> HIDE DEF s
<1>4. c - from \in 0..(range - 1)
  OBVIOUS
<1>5. PICK t \in 0..(N - 1) : s[t].index <= c - from /\ c - from < s[t].index + s[t].sub_range
  BY <1>2, <1>4 DEF Tiles
<1>6. PICK a \in Nat, b \in Nat : s[t].index = a /\ s[t].sub_range = b
  BY <1>2 DEF Tiles
<1>7. PartOf(t, N, range, from) = (from + a)..(from + a + b - 1)
  BY <1>3, <1>6 DEF PartOf
<1> QED
  BY <1>5, <1>6, <1>7

(* Right of a panel every column is updated by one thread, and the columns *)
(* of the next panel by thread 0.                                          *)
LEMMA UpdatedOnce ==
  ASSUME prob \in Problem, NEW p \in 1..mn
  PROVE  /\ \A i \in Thread : UpdatedColumns(i, p) \subseteq {c \in Column : c >= p + Width(p)}
         /\ \A i, k \in Thread : i # k => UpdatedColumns(i, p) \cap UpdatedColumns(k, p) = {}
         /\ FullTeam => \A c \in Column : c >= p + Width(p) =>
                          \E i \in Thread : c \in UpdatedColumns(i, p)
         /\ p + nb <= mn => Panel(p + nb) \subseteq UpdatedColumns(0, p)
         /\ \A i \in Thread : Begin(i, p) = "barrier" => UpdatedColumns(i, p) = {}
<1> DEFINE N == prob.n_threads - 1
           from == p + Offset(p)
           range == n - p - Width(p) + 1 - Width(p)
<1>1. /\ Width(p) \in 1..nb /\ n \in Nat /\ N \in Nat /\ N > 0 /\ nb \in Nat /\ mn \in Nat
      /\ mn <= n /\ p \in Nat /\ p + Width(p) - 1 <= mn
      /\ 0 \in Thread /\ Thread \subseteq 0..N
  BY Sizes, PanelFacts
<1>2. UpdatedColumns(0, p) =
        (p + Width(p))..(p + Width(p) - 1 + Minimum(n - p - Width(p) + 1, Width(p)))
  BY DEF UpdatedColumns
<1>3. from \in Int /\ from = p + 2 * Width(p) /\ range \in Int /\ from + range - 1 = n
  BY <1>1 DEF Offset
<1>4. \A i \in Thread \ {0} : i \in Int /\ i - 1 \in 0..(N - 1)
  BY <1>1
<1>5. \A i \in Thread \ {0} : UpdatedColumns(i, p) = PartOf(i - 1, N, range, from)
  BY DEF UpdatedColumns, PartOf
<1>6. FullTeam => Thread = 0..N
  BY <1>1, Sizes DEF FullTeam, Thread
<1> HIDE DEF N, from, range
<1>7. UpdatedColumns(0, p) \subseteq {c \in Column : c >= p + Width(p)}
  BY <1>1, <1>2, SMTT(30) DEF Minimum, Column
<1>8. ASSUME NEW i \in Thread \ {0}
      PROVE  UpdatedColumns(i, p) \subseteq {c \in Column : c >= p + 2 * Width(p)}
  <2>1. PICK t \in 0..(N - 1) : t = i - 1
    BY <1>4
  <2>2. PartOf(t, N, range, from) \subseteq from..(from + range - 1)
    BY <1>1, <1>3, PartFacts
  <2>3. UpdatedColumns(i, p) \subseteq (p + 2 * Width(p))..n
    BY <1>3, <1>5, <2>1, <2>2
  <2> QED
    BY <1>1, <2>3 DEF Column
<1>9. ASSUME NEW i \in Thread PROVE UpdatedColumns(i, p) \subseteq {c \in Column : c >= p + Width(p)}
  <2>1. CASE i = 0
    BY <1>7, <2>1
  <2>2. CASE i # 0
    <3>1. UpdatedColumns(i, p) \subseteq {c \in Column : c >= p + 2 * Width(p)}
      BY <1>8, <2>2
    <3>2. \A c \in Column : c \in Int /\ (c >= p + 2 * Width(p) => c >= p + Width(p))
      BY <1>1 DEF Column
    <3> QED
      BY <3>1, <3>2
  <2> QED
    BY <2>1, <2>2
<1>10. ASSUME NEW i \in Thread, NEW k \in Thread, i # k
       PROVE  UpdatedColumns(i, p) \cap UpdatedColumns(k, p) = {}
  <2>1. \A c \in UpdatedColumns(0, p) : c \in Int /\ c < p + 2 * Width(p)
    BY <1>1, UpdatedApart
  <2>2. \A a \in Thread \ {0} : \A c \in UpdatedColumns(a, p) : c \in Int /\ ~(c < p + 2 * Width(p))
    <3> SUFFICES ASSUME NEW a \in Thread \ {0}, NEW c \in UpdatedColumns(a, p)
                 PROVE  c \in Int /\ ~(c < p + 2 * Width(p))
      OBVIOUS
    <3>1. c \in Int /\ c >= p + 2 * Width(p)
      BY UpdatedApart
    <3> QED
      BY <1>1, <3>1
  <2>3. CASE i # 0 /\ k # 0
    BY <1>10, <2>3, UpdatedApart
  <2>4. CASE i = 0 \/ k = 0
    BY <1>10, <2>1, <2>2, <2>4
  <2> QED
    BY <2>3, <2>4
<1>11. ASSUME FullTeam, NEW c \in Column, c >= p + Width(p)
       PROVE  \E i \in Thread : c \in UpdatedColumns(i, p)
  <2>1. c \in Nat /\ c <= n
    BY <1>1 DEF Column
  <2>2. CASE c < p + 2 * Width(p)
    <3>1. c \in UpdatedColumns(0, p)
      BY <1>1, <1>2, <1>11, <2>1, <2>2, SMTT(30) DEF Minimum
    <3> QED
      BY <1>1, <3>1
  <2>3. CASE c >= p + 2 * Width(p)
    <3>1. c \in from..(from + range - 1) /\ range \in Nat
      BY <1>1, <1>3, <2>1, <2>3
    <3>2. PICK t \in 0..(N - 1) : c \in PartOf(t, N, range, from)
      BY <1>1, <1>3, <3>1, PartCovers
    <3>3. PICK i \in 0..N : i = t + 1 /\ i # 0 /\ i - 1 = t
      BY <1>1
    <3>4. i \in Thread \ {0}
      BY <1>6, <1>11, <3>3
    <3> QED
      BY <1>5, <3>2, <3>3, <3>4
  <2> QED
    BY <1>1, <2>1, <2>2, <2>3
<1>12. ASSUME p + nb <= mn PROVE Panel(p + nb) \subseteq UpdatedColumns(0, p)
  <2>1. /\ Width(p) = nb /\ p + nb \in 1..mn
    BY <1>12, PanelFacts
  <2>2. Width(p + nb) \in 1..nb /\ p + nb + Width(p + nb) - 1 \in 1..mn
    BY <2>1, PanelFacts
  <2> QED
    BY <1>1, <1>2, <2>1, <2>2 DEF Panel, Minimum
<1>13. ASSUME NEW i \in Thread, Begin(i, p) = "barrier" PROVE UpdatedColumns(i, p) = {}
  <2>1. i # 0 /\ ~(p + Width(p) <= n)
    BY <1>13 DEF Begin
  <2>2. \A c \in Column : c \in Int /\ ~(c >= p + Width(p))
    BY <1>1, <2>1 DEF Column
  <2> QED
    BY <1>9, <2>2
<1> QED
  BY <1>9, <1>10, <1>11, <1>12, <1>13

(* Left of a panel too.                                                    *)
LEMMA LeftOnce ==
  ASSUME prob \in Problem, NEW p \in 1..mn
  PROVE  /\ \A i \in Thread : LeftColumns(i, p) \subseteq {c \in Column : c < p}
         /\ \A i, k \in Thread : i # k => LeftColumns(i, p) \cap LeftColumns(k, p) = {}
         /\ FullTeam => \A c \in Column : c < p => \E i \in Thread : c \in LeftColumns(i, p)
<1> DEFINE N == prob.n_threads
           range == p - 1
<1>1. N \in Nat /\ N > 0 /\ range \in Nat /\ range \in Int /\ Thread \subseteq 0..(N - 1) /\ p \in Nat
      /\ mn \in Nat /\ n \in Nat /\ mn <= n
  BY Sizes
<1>2. ASSUME NEW v \in 0..(N - 1)
      PROVE  LeftColumns(v, p) = PartOf(v, N, range, 1)
  <2> DEFINE part == FLA_Thread_get_subrange(v, N, range)
  <2>1. /\ LeftColumns(v, p) = (1 + part.index)..(part.index + part.sub_range)
        /\ PartOf(v, N, range, 1) = (1 + part.index)..(1 + part.index + part.sub_range - 1)
    BY DEF LeftColumns, PartOf
  <2> HIDE DEF N, range
  <2>2. part.index \in Nat /\ part.sub_range \in Nat
    BY <1>1, PartFacts
  <2> HIDE DEF part
  <2>3. QED
    BY <2>1, <2>2
<1>3. FullTeam => Thread = 0..(N - 1)
  BY <1>1 DEF FullTeam, Thread
<1>4. range = p - 1
  OBVIOUS
<1> HIDE DEF N, range
<1>5. ASSUME NEW i \in Thread PROVE LeftColumns(i, p) \subseteq {c \in Column : c < p}
  <2>1. PICK t \in 0..(N - 1), from \in Int : t = i /\ from = 1
    BY <1>1
  <2>2. PartOf(t, N, range, from) \subseteq from..(from + range - 1)
    BY <1>1, <2>1, PartFacts
  <2>3. LeftColumns(i, p) \subseteq 1..(p - 1)
    BY <1>1, <1>2, <1>4, <2>1, <2>2
  <2>4. 1..(p - 1) \subseteq {c \in Column : c < p}
    BY <1>1 DEF Column
  <2> QED
    BY <2>3, <2>4
<1>6. ASSUME FullTeam, NEW c \in Column, c < p
      PROVE  \E i \in Thread : c \in LeftColumns(i, p)
  <2>1. PICK from \in Int : from = 1
    OBVIOUS
  <2>2. c \in from..(from + range - 1)
    BY <1>1, <1>4, <1>6, <2>1 DEF Column
  <2>3. PICK t \in 0..(N - 1) : c \in PartOf(t, N, range, from)
    BY <1>1, <2>2, PartCovers
  <2> QED
    BY <1>2, <1>3, <1>6, <2>1, <2>3
<1> QED
  BY <1>5, <1>6, LeftApart

LEMMA SameColumns ==
  ASSUME prob' = prob, NEW p, NEW i
  PROVE  /\ UpdatedColumns(i, p)' = UpdatedColumns(i, p)
         /\ LeftColumns(i, p)' = LeftColumns(i, p)
         /\ Width(p)' = Width(p)
BY SameProblem DEF UpdatedColumns, LeftColumns, Width, Offset, Minimum

-----------------------------------------------------------------------------
(* What has been done to each column, told from the history H[c] of the    *)
(* column in the factorisation by one thread.                              *)
Histories(H) == \A c \in Column : IsHistory(H[c], c)

(* A column behind the panel at p that thread i updates: thread 0 factors  *)
(* the columns of the next panel too.                                      *)
Stage(h, p, i, c) ==
  CASE pc[i] = "laswp"  -> h[p - 1]
    [] pc[i] = "trsm"   -> Append(h[p - 1], <<"swap", p>>)
    [] pc[i] = "gemm"   -> Append(Append(h[p - 1], <<"swap", p>>), <<"solve", p>>)
    [] pc[i] = "getrf2" -> h[p]
    [] pc[i] \in {"adjust", "barrier"} ->
         IF i = 0 /\ p + nb <= mn /\ c \in Panel(p + nb) THEN h[c] ELSE h[p]

FirstWritten(H) ==
  region = "first" =>
    \A c \in Column :
      col[c] = IF pc[0] = "adjust" /\ c \in Panel(1) THEN H[c][c] ELSE H[c][0]

(* A column in or left of the panel has undergone the operations up to its *)
(* own factorisation.                                                      *)
UpdateWritten(H) ==
  region = "update" =>
    \A c \in Column :
      /\ c < j[0] + Width(j[0]) => col[c] = H[c][c]
      /\ \A i \in Thread : c \in UpdatedColumns(i, j[0]) => col[c] = Stage(H[c], j[0], i, c)

(* In the second region a column in or right of the panel has undergone    *)
(* all but the interchanges of the panels on its right.                    *)
LeftWritten(H) ==
  region = "left" =>
    \A c \in Column :
      /\ c >= j[0] => col[c] = H[c][Minimum(c, mn)]
      /\ \A i \in Thread : c \in LeftColumns(i, j[0]) =>
           col[c] = H[c][IF pc[i] = "left" THEN j[0] - 1 ELSE j[0]]

DoneWritten(H) == Done => \A c \in Column : col[c] = H[c][mn]

Written(H) == FirstWritten(H) /\ UpdateWritten(H) /\ LeftWritten(H) /\ DoneWritten(H)

(* All are at a panel, and update below it only when there are rows.       *)
AtPanel ==
  /\ j[0] \in Panels
  /\ \A i \in Thread : pc[i] = "gemm" => j[0] + Width(j[0]) <= m

LEMMA SameHistories ==
  ASSUME prob' = prob, NEW H
  PROVE  /\ Panels' = Panels
         /\ Histories(H)' <=> Histories(H)
<1>1. /\ m' = m /\ n' = n /\ nb' = nb /\ mn' = mn /\ Column' = Column
      /\ Panels' = Panels
  BY SameProblem DEF Panels
<1>2. \A p : Panel(p)' = Panel(p) /\ Width(p)' = Width(p)
  BY SamePanels, SameColumns
<1>3. \A c, k : Sequential(c, k)' = Sequential(c, k)
  BY <1>1, <1>2 DEF Sequential
<1>4. \A c, k : Adds(c, k)' = Adds(c, k)
  BY <1>1, <1>3 DEF Adds
<1>5. ASSUME NEW c, NEW h PROVE IsHistory(h, c)' <=> IsHistory(h, c)
  BY <1>1, <1>4 DEF IsHistory
<1> QED
  BY <1>1, <1>5 DEF Histories

(* A call of thread i on a column.                                         *)
LEMMA StepOnColumn ==
  ASSUME PInv, AtPanel, NEW i \in Thread, Step(i), region = "update", NEW c \in Column,
         NEW h, IsHistory(h, c), NEW p \in Panels, p = j[0]
  PROVE  /\ c \notin UpdatedColumns(i, p) => col'[c] = col[c]
         /\ c \in UpdatedColumns(i, p) /\ col[c] = Stage(h, p, i, c) =>
              col'[c] = Stage(h, p, i, c)'
         /\ \A k \in Thread : k # i => pc'[k] = pc[k]
<1>1. /\ prob \in Problem /\ prob' = prob /\ j[i] = p /\ p \in 1..mn /\ p \in Nat
      /\ col \in [Column -> Seq({"swap", "solve", "update", "factor"} \X (1..mn))]
      /\ pc \in [Thread -> Label] /\ nb \in Nat /\ mn \in Nat /\ 0 \in Thread
  BY Sizes, PanelsApart
     DEF Step, Swap, Solve, Update, FactorNext, AdjustNext, SwapLeft, PInv, InStep, TypeOK
<1>2. /\ nb' = nb /\ mn' = mn /\ \A q : Panel(q)' = Panel(q)
  BY <1>1, SameProblem, SamePanels
<1>3. \A k \in Thread : k # i => pc'[k] = pc[k]
  BY <1>1 DEF Step, Swap, Solve, Update, FactorNext, AdjustNext, SwapLeft, Goto
<1>4. UpdatedColumns(i, p) \subseteq {d \in Column : d >= p + Width(p)}
  BY <1>1, UpdatedOnce
<1>5. NextPanel(i) = p + nb
  BY <1>1 DEF NextPanel
<1>6. Panel(p + nb)' = Panel(p + nb)
  BY <1>2
<1> DEFINE g == Append(Append(h[p - 1], <<"swap", p>>), <<"solve", p>>)
<1>7. c \in UpdatedColumns(i, p) =>
        h[p] = IF p + Width(p) <= m THEN Append(g, <<"update", p>>) ELSE g
  BY <1>1, <1>4, HistoryRight
<1>8. ASSUME pc'[i] = AfterUpdate(i) PROVE Stage(h, p, i, c)' = h[p]
  BY <1>2, <1>5, <1>6, <1>8 DEF Stage, AfterUpdate
<1>9. CASE Swap(i)
  <2>1. col' = [d \in Column |-> IF d \in UpdatedColumns(i, p) THEN Append(col[d], <<"swap", p>>)
                                 ELSE col[d]]
        /\ pc[i] = "laswp" /\ pc'[i] = "trsm"
    BY <1>1, <1>9 DEF Swap, Apply, Goto
  <2> QED
    BY <1>3, <2>1 DEF Stage
<1>10. CASE Solve(i)
  <2>1. col' = [d \in Column |-> IF d \in UpdatedColumns(i, p) THEN Append(col[d], <<"solve", p>>)
                                 ELSE col[d]]
        /\ pc[i] = "trsm" /\ pc'[i] = IF p + Width(p) <= m THEN "gemm" ELSE AfterUpdate(i)
    BY <1>1, <1>10 DEF Solve, Apply, Goto
  <2>2. CASE p + Width(p) <= m
    BY <1>3, <2>1, <2>2 DEF Stage
  <2>3. CASE ~(p + Width(p) <= m)
    <3>1. Stage(h, p, i, c)' = h[p]
      BY <1>8, <2>1, <2>3
    <3> QED
      BY <1>3, <1>7, <2>1, <2>3, <3>1 DEF Stage
  <2> QED
    BY <2>2, <2>3
<1>11. CASE Update(i)
  <2>1. col' = [d \in Column |-> IF d \in UpdatedColumns(i, p) THEN Append(col[d], <<"update", p>>)
                                 ELSE col[d]]
        /\ pc[i] = "gemm" /\ pc'[i] = AfterUpdate(i)
    BY <1>1, <1>11 DEF Update, Apply, Goto
  <2>2. Stage(h, p, i, c)' = h[p]
    BY <1>8, <2>1
  <2>3. p + Width(p) <= m
    BY <2>1 DEF AtPanel
  <2> QED
    BY <1>3, <1>7, <2>1, <2>2, <2>3 DEF Stage
<1>12. CASE FactorNext(i)
  <2>1. i = 0 /\ p + nb <= mn /\ pc[i] = "getrf2" /\ pc'[i] = "adjust"
    BY <1>1, <1>12 DEF FactorNext, Goto, PInv, Places, NextPanel
  <2>2. col' = [d \in Column |-> IF d \in Panel(p + nb) THEN Append(col[d], <<"factor", p + nb>>)
                                 ELSE col[d]]
    BY <1>5, <1>12 DEF FactorNext, Factor, Apply
  <2>3. Panel(p + nb) \subseteq UpdatedColumns(i, p) /\ p + nb \in Panels
    BY <1>1, <2>1, UpdatedOnce, PanelsApart
  <2>4. ASSUME c \in Panel(p + nb), col[c] = Stage(h, p, i, c) PROVE col'[c] = Stage(h, p, i, c)'
    <3>1. PICK q \in Panels : q = p + nb
      BY <2>3
    <3>2. h[c] = Append(h[q - 1], <<"factor", q>>)
      BY <1>1, <2>4, <3>1, HistoryIn
    <3>3. h[q - 1] = h[p]
      <4>1. q - 1 \in 1..mn /\ p <= q - 1 /\ q - 1 < p + nb
        BY <1>1, <2>1, <3>1, Sizes, SMTT(30)
      <4> QED
        BY <1>1, <4>1, HistoryRests
    <3>4. Stage(h, p, i, c)' = h[c]
      BY <1>2, <1>6, <2>1, <2>4 DEF Stage
    <3>5. col[c] = h[p]
      BY <2>1, <2>4 DEF Stage
    <3> QED
      BY <2>2, <2>4, <3>1, <3>2, <3>3, <3>4, <3>5
  <2>5. ASSUME c \notin Panel(p + nb), col[c] = Stage(h, p, i, c) PROVE col'[c] = Stage(h, p, i, c)'
    <3>1. Stage(h, p, i, c)' = h[p]
      BY <1>2, <1>6, <2>1, <2>5 DEF Stage
    <3> QED
      BY <2>1, <2>2, <2>5, <3>1 DEF Stage
  <2> QED
    BY <1>3, <2>2, <2>3, <2>4, <2>5
<1>13. CASE AdjustNext(i)
  <2>1. col' = col /\ pc[i] = "adjust" /\ pc'[i] = "barrier"
    BY <1>1, <1>13 DEF AdjustNext, Goto
  <2>2. Stage(h, p, i, c)' = Stage(h, p, i, c)
    BY <1>2, <1>6, <2>1 DEF Stage
  <2> QED
    BY <1>3, <2>1, <2>2
<1>14. ~SwapLeft(i)
  BY DEF SwapLeft, PInv, Places
<1> QED
  BY <1>9, <1>10, <1>11, <1>12, <1>13, <1>14 DEF Step

LEMMA StepWrites ==
  ASSUME PInv, AtPanel, NEW H, Histories(H), Written(H), NEW i \in Thread, Step(i)
  PROVE  Written(H)' /\ AtPanel'
<1>1. /\ prob \in Problem /\ prob' = prob /\ region' = region /\ j' = j /\ j[i] = j[0]
      /\ region \in {"update", "left"} /\ 0 \in Thread
      /\ col \in [Column -> Seq({"swap", "solve", "update", "factor"} \X (1..mn))]
      /\ pc \in [Thread -> Label]
  BY Sizes DEF Step, Swap, Solve, Update, FactorNext, AdjustNext, SwapLeft, PInv, InStep, TypeOK, Places
<1>2. mn' = mn /\ Thread' = Thread /\ Column' = Column /\ Panels' = Panels
  BY <1>1, SameProblem, SameHistories
<1>4. PICK p \in Panels : p = j[0] /\ p \in 1..mn
  BY <1>1, PanelsApart DEF AtPanel
<1>3. AtPanel'
  <2>1. Width(p)' = Width(p) /\ m' = m
    BY <1>1, SameColumns, SameProblem
  <2>2. ASSUME NEW k \in Thread, pc'[k] = "gemm" PROVE p + Width(p) <= m
    <3>1. CASE Solve(i)
      BY <1>1, <1>4, <2>2, <3>1 DEF Solve, Goto, AtPanel, AfterUpdate
    <3>2. CASE Swap(i) \/ FactorNext(i) \/ AdjustNext(i) \/ SwapLeft(i)
      BY <1>1, <1>4, <2>2, <3>2 DEF Swap, FactorNext, AdjustNext, SwapLeft, Goto, AtPanel
    <3>3. CASE Update(i)
      BY <1>1, <1>4, <2>2, <3>3 DEF Update, Goto, AtPanel
    <3> QED
      BY <3>1, <3>2, <3>3 DEF Step
  <2> QED
    BY <1>1, <1>2, <1>4, <2>1, <2>2 DEF AtPanel
<1>5. /\ Width(p)' = Width(p)
      /\ \A k : UpdatedColumns(k, p)' = UpdatedColumns(k, p) /\ LeftColumns(k, p)' = LeftColumns(k, p)
  BY <1>1, SameColumns
<1>6. CASE region = "update"
  <2>1. ASSUME NEW c \in Column
        PROVE  /\ c < p + Width(p) => col'[c] = H[c][c]
               /\ \A k \in Thread : c \in UpdatedColumns(k, p) => col'[c] = Stage(H[c], p, k, c)'
    <3>0. IsHistory(H[c], c)
      BY DEF Histories
    <3>1. /\ c \notin UpdatedColumns(i, p) => col'[c] = col[c]
          /\ c \in UpdatedColumns(i, p) /\ col[c] = Stage(H[c], p, i, c) =>
               col'[c] = Stage(H[c], p, i, c)'
          /\ \A k \in Thread : k # i => pc'[k] = pc[k]
      BY <1>4, <1>6, <3>0, StepOnColumn
    <3>2. /\ c < p + Width(p) => col[c] = H[c][c]
          /\ \A k \in Thread : c \in UpdatedColumns(k, p) => col[c] = Stage(H[c], p, k, c)
      BY <1>4, <1>6 DEF Written, UpdateWritten
    <3>3. ASSUME c < p + Width(p) PROVE c \notin UpdatedColumns(i, p)
      <4>1. Width(p) \in Nat /\ p \in Nat /\ c \in Nat
        <5>1. c \in 1..n /\ n \in Nat /\ nb \in Nat /\ mn \in Nat
          BY <1>1, Sizes DEF Column
        <5>2. Width(p) \in 1..nb
          BY <1>1, <1>4, PanelFacts
        <5> QED
          BY <1>4, <5>1, <5>2
      <4>2. ~(c >= p + Width(p))
        BY <3>3, <4>1
      <4> QED
        BY <1>1, <1>4, <4>2, UpdatedOnce
    <3>4. ASSUME NEW k \in Thread, k # i, c \in UpdatedColumns(k, p)
          PROVE  col'[c] = Stage(H[c], p, k, c)'
      <4>1. c \notin UpdatedColumns(i, p)
        BY <1>1, <1>4, <3>4, UpdatedOnce
      <4>2. nb' = nb /\ mn' = mn /\ Panel(p + nb)' = Panel(p + nb)
        BY <1>1, SameProblem, SamePanels
      <4>3. pc'[k] = pc[k]
        BY <3>1, <3>4
      <4>4. Stage(H[c], p, k, c)' = Stage(H[c], p, k, c)
        BY <4>2, <4>3 DEF Stage
      <4> QED
        BY <3>1, <3>2, <3>4, <4>1, <4>4
    <3> QED
      BY <3>1, <3>2, <3>3, <3>4
  <2>2. UpdateWritten(H)'
    BY <1>1, <1>2, <1>4, <1>5, <2>1 DEF UpdateWritten
  <2> QED
    BY <1>1, <1>3, <1>6, <2>2 DEF Written, FirstWritten, LeftWritten, DoneWritten, Done
<1>7. CASE region = "left"
  <2>1. SwapLeft(i)
    BY <1>7 DEF Step, Swap, Solve, Update, FactorNext, AdjustNext, PInv, Places
  <2>2. /\ col' = [d \in Column |-> IF d \in LeftColumns(i, p) THEN Append(col[d], <<"swap", p>>)
                                    ELSE col[d]]
        /\ pc[i] = "left" /\ pc'[i] = "barrier" /\ \A k \in Thread : k # i => pc'[k] = pc[k]
    BY <1>1, <1>4, <2>1 DEF SwapLeft, Apply, Goto
  <2>3. ASSUME NEW c \in Column
        PROVE  /\ c >= p => col'[c] = H[c][Minimum(c, mn)]
               /\ \A k \in Thread : c \in LeftColumns(k, p) =>
                    col'[c] = H[c][IF pc'[k] = "left" THEN p - 1 ELSE p]
    <3>0. IsHistory(H[c], c)
      BY DEF Histories
    <3>1. /\ c >= p => col[c] = H[c][Minimum(c, mn)]
          /\ \A k \in Thread : c \in LeftColumns(k, p) =>
               col[c] = H[c][IF pc[k] = "left" THEN p - 1 ELSE p]
      BY <1>4, <1>7 DEF Written, LeftWritten
    <3>2. c \in LeftColumns(i, p) => ~(c >= p) /\ c < p
      <4>1. p \in Nat /\ c \in Nat
        BY <1>1, <1>4, Sizes DEF Column
      <4> QED
        BY <1>1, <1>4, <4>1, LeftOnce
    <3>3. ASSUME NEW k \in Thread, c \in LeftColumns(k, p)
          PROVE  col'[c] = H[c][IF pc'[k] = "left" THEN p - 1 ELSE p]
      <4>1. CASE k = i
        <5>1. H[c][p] = Append(H[c][p - 1], <<"swap", p>>)
          BY <1>1, <3>0, <3>2, <3>3, <4>1, HistoryLeft
        <5> QED
          BY <2>2, <3>1, <3>3, <4>1, <5>1
      <4>2. CASE k # i
        <5>1. c \notin LeftColumns(i, p)
          BY <1>1, <1>4, <3>3, <4>2, LeftOnce
        <5> QED
          BY <2>2, <3>1, <3>3, <4>2, <5>1
      <4> QED
        BY <4>1, <4>2
    <3> QED
      BY <2>2, <3>1, <3>2, <3>3
  <2>4. LeftWritten(H)'
    <3>1. \A c : Minimum(c, mn)' = Minimum(c, mn)
      BY <1>2 DEF Minimum
    <3> QED
      BY <1>1, <1>2, <1>4, <1>5, <2>3, <3>1 DEF LeftWritten
  <2> QED
    BY <1>1, <1>3, <1>7, <2>4 DEF Written, FirstWritten, UpdateWritten, DoneWritten, Done
<1> QED
  BY <1>1, <1>6, <1>7

LEMMA LastPanel ==
  ASSUME prob \in Problem, NEW p \in 1..mn, p + nb > mn
  PROVE  p + Width(p) = mn + 1
BY Sizes DEF Width, Minimum

(* The steps of the whole team: between two panels the columns behind them *)
(* have no operation to wait for.                                          *)
LEMMA TeamWrites ==
  ASSUME PInv, FullTeam, AtPanel, NEW H, Histories(H), Written(H), Team
  PROVE  Written(H)' /\ AtPanel'
<1>1. /\ prob \in Problem /\ prob' = prob
      /\ col \in [Column -> Seq({"swap", "solve", "update", "factor"} \X (1..mn))]
      /\ pc \in [Thread -> Label] /\ j \in [Thread -> 1..mn] /\ \A i \in Thread : j[i] = j[0]
  BY DEF Team, FactorFirst, AdjustFirst, NextIteration, EndRegion, PInv, InStep, TypeOK
<1>2. /\ mn' = mn /\ nb' = nb /\ m' = m /\ Thread' = Thread /\ Column' = Column /\ Panels' = Panels
      /\ 0 \in Thread /\ nb \in Nat /\ nb > 0 /\ mn \in Nat /\ mn > 0 /\ n \in Nat /\ mn <= n
      /\ Column = 1..n
  BY <1>1, SameProblem, SameHistories, Sizes DEF Column
<1>3. PICK p \in Panels : p = j[0] /\ p \in 1..mn
  BY <1>1, PanelsApart DEF AtPanel
<1>4. PICK one \in Panels : one = 1 /\ one \in 1..mn
  BY <1>1, PanelsApart
<1>5. \A q : /\ Width(q)' = Width(q) /\ Panel(q)' = Panel(q)
             /\ \A k : UpdatedColumns(k, q)' = UpdatedColumns(k, q) /\ LeftColumns(k, q)' = LeftColumns(k, q)
  BY <1>1, SameColumns, SamePanels
<1>6. \A c \in Column : IsHistory(H[c], c)
  BY DEF Histories
<1>7. \A c : Minimum(c, mn)' = Minimum(c, mn)
  BY <1>2 DEF Minimum
<1>8. CASE FactorFirst
  <2>1. /\ region = "first" /\ region' = "first" /\ j' = j /\ pc[0] = "getrf2" /\ pc'[0] = "adjust"
        /\ \A k \in Thread : pc'[k] # "gemm"
    BY <1>1, <1>2, <1>8 DEF FactorFirst, Goto, PInv, Places
  <2>2. col' = [c \in Column |-> IF c \in Panel(one) THEN Append(col[c], <<"factor", one>>) ELSE col[c]]
    BY <1>4, <1>8 DEF FactorFirst, Factor, Apply
  <2>3. ASSUME NEW c \in Column
        PROVE  col'[c] = IF c \in Panel(one) THEN H[c][c] ELSE H[c][0]
    <3>1. col[c] = H[c][0]
      BY <2>1 DEF Written, FirstWritten
    <3>2. c \in Panel(one) => H[c][c] = Append(H[c][one - 1], <<"factor", one>>)
      BY <1>1, <1>6, HistoryIn
    <3>3. one - 1 = 0 /\ col'[c] = IF c \in Panel(one) THEN Append(col[c], <<"factor", one>>) ELSE col[c]
      BY <1>4, <2>2
    <3>4. H[c][one - 1] = H[c][0]
      BY <3>3
    <3> QED
      BY <3>1, <3>2, <3>3, <3>4
  <2>4. FirstWritten(H)'
    BY <1>2, <1>4, <1>5, <2>1, <2>3 DEF FirstWritten
  <2>5. AtPanel'
    BY <1>2, <1>3, <2>1 DEF AtPanel
  <2> QED
    BY <2>1, <2>4, <2>5 DEF Written, UpdateWritten, LeftWritten, DoneWritten, Done
<1>9. CASE AdjustFirst
  <2>1. /\ region = "first" /\ region' = "update" /\ j' = j /\ j[0] = one /\ pc[0] = "adjust"
        /\ col' = col /\ \A k \in Thread : pc'[k] = Begin(k, one)
    BY <1>1, <1>2, <1>4, <1>9 DEF AdjustFirst, PInv, Places
  <2>2. \A k \in Thread : pc'[k] \in {"laswp", "barrier"}
    BY <2>1 DEF Begin
  <2>3. ASSUME NEW c \in Column
        PROVE  /\ c < one + Width(one) => col'[c] = H[c][c]
               /\ \A k \in Thread : c \in UpdatedColumns(k, one) => col'[c] = Stage(H[c], one, k, c)'
    <3>1. col[c] = IF c \in Panel(one) THEN H[c][c] ELSE H[c][0]
      BY <1>4, <2>1 DEF Written, FirstWritten
    <3>2. Width(one) \in Nat /\ c \in Nat /\ c >= 1
      <4>1. Width(one) \in 1..nb
        BY <1>1, <1>4, PanelFacts
      <4> QED
        BY <1>2, <4>1
    <3>3. c < one + Width(one) <=> c \in Panel(one)
      BY <1>4, <3>2 DEF Panel
    <3>4. ASSUME NEW k \in Thread, c \in UpdatedColumns(k, one)
          PROVE  col'[c] = Stage(H[c], one, k, c)'
      <4>1. pc'[k] = "laswp"
        BY <1>1, <1>4, <2>1, <2>2, <3>4, UpdatedOnce
      <4>2. c >= one + Width(one)
        BY <1>1, <1>4, <3>4, UpdatedOnce
      <4>3. c \notin Panel(one)
        BY <1>4, <3>2, <3>3, <4>2
      <4> QED
        BY <1>4, <2>1, <3>1, <4>1, <4>3 DEF Stage
    <3> QED
      BY <2>1, <3>1, <3>3, <3>4
  <2>4. UpdateWritten(H)'
    BY <1>2, <1>5, <2>1, <2>3 DEF UpdateWritten
  <2>5. AtPanel'
    BY <1>2, <1>3, <2>1, <2>2 DEF AtPanel
  <2> QED
    BY <2>1, <2>4, <2>5 DEF Written, FirstWritten, LeftWritten, DoneWritten, Done
<1>10. CASE NextIteration /\ region = "update"
  <2>1. /\ region' = "update" /\ col' = col /\ \A k \in Thread : pc[k] = "barrier"
        /\ p + nb <= mn /\ j'[0] = p + nb
        /\ \A k \in Thread : pc'[k] = Begin(k, p + nb)
    BY <1>1, <1>2, <1>3, <1>10 DEF NextIteration, AllWait, MorePanels
  <2>2. PICK q \in Panels : q = p + nb /\ q \in 1..mn
    BY <1>1, <2>1, PanelsApart
  <2>3. \A k \in Thread : pc'[k] \in {"laswp", "barrier"}
    BY <2>1 DEF Begin
  <2>4. Width(p) = nb /\ Width(q) \in Nat
    <3>1. Width(p) = nb /\ Width(q) \in 1..nb
      BY <1>1, <1>3, <2>1, <2>2, PanelFacts
    <3> QED
      BY <1>2, <3>1
  <2>5. ASSUME NEW c \in Column
        PROVE  /\ c < q + Width(q) => col'[c] = H[c][c]
               /\ \A k \in Thread : c \in UpdatedColumns(k, q) => col'[c] = Stage(H[c], q, k, c)'
    <3>0. /\ c \in Nat
          /\ c < p + Width(p) => col[c] = H[c][c]
          /\ \A k \in Thread : c \in UpdatedColumns(k, p) => col[c] = Stage(H[c], p, k, c)
      BY <1>2, <1>3, <1>10 DEF Written, UpdateWritten
    <3>1. CASE c < q
      BY <1>3, <2>1, <2>2, <2>4, <3>0, <3>1, UpdatedOnce, <1>1
    <3>2. CASE c \in Panel(q)
      <4>1. c \in UpdatedColumns(0, p)
        BY <1>1, <1>3, <2>1, <2>2, <3>2, UpdatedOnce
      <4>2. Stage(H[c], p, 0, c) = H[c][c]
        BY <1>2, <2>1, <2>2, <3>2 DEF Stage
      <4>3. ~(c >= q + Width(q))
        BY <2>2, <2>4, <3>0, <3>2 DEF Panel
      <4> QED
        BY <1>1, <1>2, <2>1, <2>2, <3>0, <4>1, <4>2, <4>3, UpdatedOnce
    <3>3. CASE c >= q + Width(q)
      <4>1. c \notin Panel(q) /\ ~(c < q + Width(q)) /\ c >= p + Width(p)
        BY <1>3, <2>2, <2>4, <3>0, <3>3 DEF Panel
      <4>2. PICK k \in Thread : c \in UpdatedColumns(k, p)
        BY <1>1, <1>3, <4>1, UpdatedOnce
      <4>3. Stage(H[c], p, k, c) = H[c][p]
        BY <2>1, <2>2, <4>1 DEF Stage
      <4>4. H[c][q - 1] = H[c][p]
        <5>1. q - 1 \in 1..mn /\ p <= q - 1 /\ q - 1 < p + nb
          BY <1>2, <1>3, <2>2
        <5> QED
          BY <1>1, <1>6, <5>1, HistoryRests
      <4>5. ASSUME NEW i \in Thread, c \in UpdatedColumns(i, q)
            PROVE  Stage(H[c], q, i, c)' = H[c][q - 1]
        <5>1. pc'[i] = "laswp"
          BY <1>1, <2>1, <2>2, <2>3, <4>5, UpdatedOnce
        <5> QED
          BY <5>1 DEF Stage
      <4> QED
        BY <2>1, <3>0, <4>1, <4>2, <4>3, <4>4, <4>5
    <3>4. c < q \/ c \in Panel(q) \/ c >= q + Width(q)
      BY <2>2, <2>4, <3>0 DEF Panel
    <3> QED
      BY <3>1, <3>2, <3>3, <3>4
  <2>6. UpdateWritten(H)'
    BY <1>2, <1>5, <2>1, <2>2, <2>5 DEF UpdateWritten
  <2>7. AtPanel'
    BY <1>2, <2>1, <2>2, <2>3 DEF AtPanel
  <2> QED
    BY <2>1, <2>6, <2>7 DEF Written, FirstWritten, LeftWritten, DoneWritten, Done
<1>11. CASE NextIteration /\ region = "left"
  <2>1. /\ region' = "left" /\ col' = col /\ \A k \in Thread : pc[k] = "barrier"
        /\ p + nb <= mn /\ j'[0] = p + nb
        /\ \A k \in Thread : pc'[k] = "left"
    BY <1>1, <1>2, <1>3, <1>11 DEF NextIteration, AllWait, MorePanels
  <2>2. PICK q \in Panels : q = p + nb /\ q \in 1..mn
    BY <1>1, <2>1, PanelsApart
  <2>3. ASSUME NEW c \in Column
        PROVE  /\ c >= q => col'[c] = H[c][Minimum(c, mn)]
               /\ c < q => col'[c] = H[c][q - 1]
    <3>0. /\ c \in Nat /\ c >= 1
          /\ c >= p => col[c] = H[c][Minimum(c, mn)]
          /\ \A k \in Thread : c \in LeftColumns(k, p) => col[c] = H[c][p]
      BY <1>2, <1>3, <1>11, <2>1 DEF Written, LeftWritten
    <3>1. H[c][q - 1] = H[c][p]
      <4>1. q - 1 \in 1..mn /\ p <= q - 1 /\ q - 1 < p + nb
        BY <1>2, <1>3, <2>2, SMTT(30)
      <4> QED
        BY <1>1, <1>6, <4>1, HistoryRests
    <3>2. CASE c < p
      <4>1. PICK k \in Thread : c \in LeftColumns(k, p)
        BY <1>1, <1>3, <3>2, LeftOnce
      <4>2. ~(c >= q)
        BY <1>2, <1>3, <2>2, <3>0, <3>2
      <4> QED
        BY <2>1, <3>0, <3>1, <4>1, <4>2
    <3>3. CASE c >= p /\ c < q
      <4>1. c \in 1..mn /\ p <= c /\ c < p + nb /\ Minimum(c, mn) = c /\ ~(c >= q)
        BY <1>2, <1>3, <2>2, <3>0, <3>3 DEF Minimum
      <4>2. H[c][c] = H[c][p]
        BY <1>1, <1>6, <4>1, HistoryRests, SMTT(30)
      <4> QED
        BY <2>1, <3>0, <3>1, <3>3, <4>1, <4>2
    <3>4. CASE c >= q
      BY <1>2, <1>3, <2>1, <2>2, <3>0, <3>4
    <3>5. c < p \/ (c >= p /\ c < q) \/ c >= q
      BY <1>3, <2>2, <3>0
    <3> QED
      BY <3>2, <3>3, <3>4, <3>5
  <2>4. \A c \in Column : \A k \in Thread : c \in LeftColumns(k, q) => c < q
    BY <1>1, <2>2, LeftOnce
  <2>5. LeftWritten(H)'
    BY <1>2, <1>5, <1>7, <2>1, <2>2, <2>3, <2>4 DEF LeftWritten
  <2>6. AtPanel'
    BY <1>2, <2>1, <2>2 DEF AtPanel
  <2> QED
    BY <2>1, <2>5, <2>6 DEF Written, FirstWritten, UpdateWritten, DoneWritten, Done
<1>12. CASE EndRegion /\ region = "update"
  <2>1. /\ region' = "left" /\ col' = col /\ \A k \in Thread : pc[k] = "barrier"
        /\ ~(p + nb <= mn) /\ j'[0] = one /\ \A k \in Thread : pc'[k] = "left"
    BY <1>1, <1>2, <1>3, <1>4, <1>12 DEF EndRegion, AllWait, MorePanels
  <2>2. p + Width(p) = mn + 1
    BY <1>1, <1>2, <1>3, <2>1, LastPanel
  <2>3. ASSUME NEW c \in Column PROVE col'[c] = H[c][Minimum(c, mn)] /\ ~(c < one)
    <3>0. /\ c \in Nat /\ c >= 1
          /\ c < p + Width(p) => col[c] = H[c][c]
          /\ \A k \in Thread : c \in UpdatedColumns(k, p) => col[c] = Stage(H[c], p, k, c)
      BY <1>2, <1>3, <1>12 DEF Written, UpdateWritten
    <3>1. CASE c <= mn
      BY <1>2, <1>4, <2>1, <2>2, <3>0, <3>1 DEF Minimum
    <3>2. CASE c > mn
      <4>0. c >= p + Width(p)
        BY <1>2, <2>2, <3>0, <3>2
      <4>1. PICK k \in Thread : c \in UpdatedColumns(k, p)
        BY <1>1, <1>3, <4>0, UpdatedOnce
      <4>2. Stage(H[c], p, k, c) = H[c][p]
        BY <2>1 DEF Stage
      <4>3. H[c][mn] = H[c][p]
        <5>1. mn \in 1..mn /\ p <= mn /\ mn < p + nb
          BY <1>2, <1>3, <2>1
        <5> QED
          BY <1>1, <1>6, <5>1, HistoryRests
      <4>4. Minimum(c, mn) = mn
        BY <1>2, <3>0, <3>2 DEF Minimum
      <4> QED
        BY <1>4, <2>1, <3>0, <4>1, <4>2, <4>3, <4>4
    <3> QED
      BY <1>2, <3>0, <3>1, <3>2
  <2>4. \A c \in Column : \A k \in Thread : c \notin LeftColumns(k, one)
    BY <1>1, <1>4, <2>3, LeftOnce
  <2>5. LeftWritten(H)'
    BY <1>2, <1>5, <1>7, <2>1, <2>3, <2>4 DEF LeftWritten
  <2>6. AtPanel'
    BY <1>2, <2>1 DEF AtPanel
  <2> QED
    BY <2>1, <2>5, <2>6 DEF Written, FirstWritten, UpdateWritten, DoneWritten, Done
<1>13. CASE EndRegion /\ region = "left"
  <2>1. /\ region' = "done" /\ col' = col /\ \A k \in Thread : pc[k] = "barrier"
        /\ ~(p + nb <= mn) /\ j'[0] = one /\ \A k \in Thread : pc'[k] = "idle"
    BY <1>1, <1>2, <1>3, <1>4, <1>13 DEF EndRegion, AllWait, MorePanels
  <2>2. ASSUME NEW c \in Column PROVE col'[c] = H[c][mn]
    <3>0. /\ c \in Nat /\ c >= 1
          /\ c >= p => col[c] = H[c][Minimum(c, mn)]
          /\ \A k \in Thread : c \in LeftColumns(k, p) => col[c] = H[c][p]
      BY <1>2, <1>3, <1>13, <2>1 DEF Written, LeftWritten
    <3>1. H[c][mn] = H[c][p]
      <4>1. mn \in 1..mn /\ p <= mn /\ mn < p + nb
        BY <1>2, <1>3, <2>1
      <4> QED
        BY <1>1, <1>6, <4>1, HistoryRests
    <3>2. CASE c < p
      <4>1. PICK k \in Thread : c \in LeftColumns(k, p)
        BY <1>1, <1>3, <3>2, LeftOnce
      <4> QED
        BY <2>1, <3>0, <3>1, <4>1
    <3>3. CASE c >= p /\ c <= mn
      <4>1. c \in 1..mn /\ p <= c /\ c < p + nb /\ Minimum(c, mn) = c
        BY <1>2, <1>3, <2>1, <3>0, <3>3 DEF Minimum
      <4>2. H[c][c] = H[c][p]
        BY <1>1, <1>6, <4>1, HistoryRests
      <4> QED
        BY <2>1, <3>0, <3>1, <3>3, <4>1, <4>2
    <3>4. CASE c > mn
      <4>1. c >= p /\ Minimum(c, mn) = mn
        BY <1>2, <1>3, <3>0, <3>4 DEF Minimum
      <4> QED
        BY <2>1, <3>0, <4>1
    <3>5. c < p \/ (c >= p /\ c <= mn) \/ c > mn
      BY <1>2, <1>3, <3>0
    <3> QED
      BY <3>2, <3>3, <3>4, <3>5
  <2>3. DoneWritten(H)'
    BY <1>2, <2>2 DEF DoneWritten
  <2>4. AtPanel'
    BY <1>2, <2>1 DEF AtPanel
  <2> QED
    BY <2>1, <2>3, <2>4 DEF Written, FirstWritten, UpdateWritten, LeftWritten
<1> QED
  BY <1>8, <1>9, <1>10, <1>11, <1>12, <1>13 DEF Team, NextIteration, EndRegion

-----------------------------------------------------------------------------
(* Up to column k the pivots refer to the whole matrix, and info tells the *)
(* first zero pivot.                                                       *)
Last(p) == p + Width(p) - 1
PivotsAbsolute(k) == \A c \in 1..k : ipiv[c] = "absolute"
FirstZero(k) ==
  /\ info = 0 => prob.zeros \cap (1..k) = {}
  /\ info # 0 => info \in prob.zeros /\ \A c \in prob.zeros : info <= c

(* The results so far; a panel that is being applied may be followed by    *)
(* one that has been factored.                                             *)
Results ==
  /\ region = "first" => FirstZero(IF pc[0] = "adjust" THEN Last(1) ELSE 0)
  /\ region = "update" =>
       /\ PivotsAbsolute(Last(j[0]))
       /\ FirstZero(Last(j[0]))
       /\ pc[0] \in {"adjust", "barrier"} /\ j[0] + nb <= mn => FirstZero(Last(j[0] + nb))
       /\ pc[0] = "barrier" /\ j[0] + nb <= mn => PivotsAbsolute(Last(j[0] + nb))
  /\ region \in {"left", "done"} => PivotsAbsolute(mn) /\ FirstZero(mn)

LEMMA LastFacts ==
  ASSUME prob \in Problem, NEW p \in 1..mn
  PROVE  /\ Last(p) \in 1..mn /\ Panel(p) = p..Last(p) /\ p <= Last(p) /\ Last(p) \in Nat
         /\ p + nb <= mn => p + nb \in 1..mn /\ Last(p) = (p + nb) - 1
         /\ p + nb > mn => Last(p) = mn
<1>1. /\ nb \in Nat /\ mn \in Nat /\ Width(p) \in 1..nb /\ p + Width(p) - 1 \in 1..mn
      /\ p + nb <= mn => Width(p) = nb /\ p + nb \in 1..mn
  BY Sizes, PanelFacts
<1>2. p + nb > mn => p + Width(p) = mn + 1
  BY LastPanel
<1> QED
  BY <1>1, <1>2 DEF Last, Panel

LEMMA FactorResult ==
  ASSUME PInv, prob' = prob, NEW p \in 1..mn, FirstZero(p - 1), Factor(p)
  PROVE  FirstZero(Last(p))' /\ (info # 0 => info' = info)
<1> DEFINE zero == prob.zeros \cap Panel(p)
<1>1. /\ prob \in Problem /\ info \in 0..mn /\ mn \in Nat /\ Last(p) \in 1..mn /\ p \in Nat
      /\ Panel(p) = p..Last(p) /\ Last(p)' = Last(p)
  <2>1. prob \in Problem /\ Last(p)' = Last(p)
    BY SameColumns DEF PInv, TypeOK, Last
  <2> QED
    BY <2>1, LastFacts, Sizes DEF PInv, TypeOK
<1>2. prob.zeros \subseteq Nat \ {0}
  BY <1>1, ProblemAssumption DEF ProblemType
<1>3. info' = IF info = 0 /\ zero # {} THEN CHOOSE c \in zero : \A d \in zero : c <= d ELSE info
  BY DEF Factor
<1>4. CASE info # 0
  BY <1>1, <1>3, <1>4 DEF FirstZero
<1>5. CASE info = 0 /\ zero = {}
  <2>1. prob.zeros \cap (1..Last(p)) = {}
    BY <1>1, <1>5 DEF FirstZero
  <2> QED
    BY <1>1, <1>3, <1>5, <2>1 DEF FirstZero
<1>6. CASE info = 0 /\ zero # {}
  <2>1. zero \subseteq Nat
    BY <1>2
  <2> HIDE DEF zero
  <2>2. \E c \in zero : \A d \in zero : c <= d
    BY <1>6, <2>1, LeastOf
  <2>3. info' \in zero /\ \A d \in zero : info' <= d
    BY <1>3, <1>6, <2>2
  <2> USE DEF zero
  <2>4. ASSUME NEW c \in prob.zeros PROVE info' <= c
    <3>1. c \in Nat /\ c >= 1 /\ info' \in Nat /\ info' <= Last(p)
      BY <1>1, <1>2, <2>3
    <3>2. c \notin 1..(p - 1)
      BY <1>6 DEF FirstZero
    <3>3. c \in Panel(p) \/ c > Last(p)
      BY <1>1, <3>1, <3>2
    <3> QED
      BY <1>1, <2>3, <3>1, <3>3
  <2>5. info' \in prob.zeros /\ info' # 0
    BY <1>2, <2>3
  <2>6. prob' = prob
    OBVIOUS
  <2> HIDE DEF zero
  <2> QED
    BY <1>6, <2>4, <2>5, <2>6 DEF FirstZero
<1> QED
  BY <1>4, <1>5, <1>6

LEMMA AdjustResult ==
  ASSUME PInv, prob' = prob, NEW p \in 1..mn, PivotsAbsolute(p - 1), Adjust(p)
  PROVE  PivotsAbsolute(Last(p))'
<1>1. prob \in Problem /\ Last(p)' = Last(p)
  BY SameColumns DEF PInv, TypeOK, Last
<1>2. mn \in Nat /\ Last(p) \in 1..mn /\ p \in Nat /\ Panel(p) = p..Last(p)
  BY <1>1, LastFacts, Sizes
<1>3. ipiv' = [c \in 1..mn |-> IF c \in Panel(p) THEN "absolute" ELSE ipiv[c]]
  BY DEF Adjust, SetPivots
<1>4. ASSUME NEW c \in 1..Last(p) PROVE ipiv'[c] = "absolute"
  <2>1. c \in 1..mn /\ (c \in Panel(p) \/ c \in 1..(p - 1))
    BY <1>2
  <2> QED
    BY <1>3, <2>1 DEF PivotsAbsolute
<1> QED
  BY <1>1, <1>4 DEF PivotsAbsolute

(* A call in a parallel region.                                            *)
LEMMA StepResults == ASSUME PInv, Results, NEW i \in Thread, Step(i) PROVE Results'
<1>1. /\ prob \in Problem /\ prob' = prob /\ region' = region /\ j' = j /\ j[i] = j[0]
      /\ region \in {"update", "left"} /\ j[0] \in 1..mn /\ pc \in [Thread -> Label]
      /\ 0 \in Thread
  BY Sizes DEF Step, Swap, Solve, Update, FactorNext, AdjustNext, SwapLeft, PInv, InStep, TypeOK, Places
<1>2. nb' = nb /\ mn' = mn /\ nb \in Nat /\ mn \in Nat /\ \A p : Last(p)' = Last(p)
  BY <1>1, SameProblem, SameColumns, Sizes DEF Last
<1>3. CASE Swap(i) \/ Solve(i) \/ Update(i) \/ SwapLeft(i)
  <2>1. ipiv' = ipiv /\ info' = info
    BY <1>3 DEF Swap, Solve, Update, SwapLeft
  <2>2. \A k : (PivotsAbsolute(k)' <=> PivotsAbsolute(k)) /\ (FirstZero(k)' <=> FirstZero(k))
    BY <1>1, <2>1 DEF PivotsAbsolute, FirstZero
  <2>3. region = "update" /\ j[0] + nb <= mn /\ pc'[0] \in {"adjust", "barrier"} => pc'[0] = pc[0]
    BY <1>1, <1>3 DEF Swap, Solve, Update, SwapLeft, Goto, AfterUpdate, NextPanel, PInv, Places
  <2> QED
    BY <1>1, <1>2, <2>2, <2>3 DEF Results
<1>4. CASE FactorNext(i) \/ AdjustNext(i)
  <2>1. i = 0 /\ region = "update" /\ j[0] + nb <= mn
    BY <1>1, <1>4 DEF FactorNext, AdjustNext, PInv, Places, NextPanel
  <2>2. PICK q \in 1..mn : q = j[0] + nb /\ Last(j[0]) = q - 1
    BY <1>1, <2>1, LastFacts
  <2>3. PivotsAbsolute(q - 1) /\ FirstZero(q - 1)
    BY <2>1, <2>2 DEF Results
  <2>4. \A c \in 1..(q - 1) : c \in 1..mn /\ c \notin Panel(q)
    <3>1. Panel(q) = q..Last(q) /\ Last(q) \in Nat /\ q \in Nat
      BY <1>1, <1>2, LastFacts
    <3> QED
      BY <1>2, <3>1
  <2>5. CASE FactorNext(i)
    <3>1. Factor(q) /\ pc'[0] = "adjust"
      BY <1>1, <2>1, <2>2, <2>5 DEF FactorNext, NextPanel, Goto
    <3>2. FirstZero(Last(q))' /\ (info # 0 => info' = info)
      BY <1>1, <2>3, <3>1, FactorResult
    <3>3. FirstZero(q - 1)'
      <4>1. Last(q) \in Nat /\ q - 1 <= Last(q)
        BY <1>1, <1>2, LastFacts
      <4>2. 1..(q - 1) \subseteq 1..Last(q)
        BY <1>2, <4>1
      <4> QED
        BY <1>2, <3>2, <4>2 DEF FirstZero
    <3>4. PivotsAbsolute(q - 1)'
      BY <2>3, <2>4, <3>1 DEF Factor, SetPivots, PivotsAbsolute
    <3> QED
      BY <1>1, <1>2, <2>1, <2>2, <3>1, <3>2, <3>3, <3>4 DEF Results
  <2>6. CASE AdjustNext(i)
    <3>1. Adjust(q) /\ pc[0] = "adjust" /\ pc'[0] = "barrier" /\ info' = info
      BY <1>1, <2>1, <2>2, <2>6 DEF AdjustNext, NextPanel, Goto
    <3>2. PivotsAbsolute(Last(q))'
      BY <1>1, <2>3, <3>1, AdjustResult
    <3>3. PivotsAbsolute(q - 1)'
      BY <2>3, <2>4, <3>1 DEF Adjust, SetPivots, PivotsAbsolute
    <3>4. FirstZero(Last(q))' /\ FirstZero(q - 1)'
      BY <1>1, <1>2, <2>1, <2>2, <2>3, <3>1 DEF Results, FirstZero
    <3> QED
      BY <1>1, <1>2, <2>1, <2>2, <3>1, <3>2, <3>3, <3>4 DEF Results
  <2> QED
    BY <1>4, <2>5, <2>6
<1> QED
  BY <1>3, <1>4 DEF Step

(* The steps of the whole team.                                            *)
LEMMA TeamResults == ASSUME PInv, Results, Team PROVE Results'
<1>1. /\ prob \in Problem /\ prob' = prob /\ j[0] \in 1..mn /\ 0 \in Thread
  BY Sizes DEF Team, FactorFirst, AdjustFirst, NextIteration, EndRegion, PInv, TypeOK
<1>2. /\ nb' = nb /\ mn' = mn /\ Thread' = Thread /\ nb \in Nat /\ mn \in Nat /\ mn > 0
      /\ \A p : Last(p)' = Last(p)
  BY <1>1, SameProblem, SameColumns, Sizes DEF Last
<1>3. PICK one \in 1..mn : one = 1 /\ one - 1 = 0
  BY <1>2
<1>4. CASE FactorFirst
  <2>1. Factor(one) /\ region' = "first" /\ region = "first" /\ pc[0] # "adjust" /\ pc'[0] = "adjust"
    BY <1>1, <1>3, <1>4 DEF FactorFirst, Goto, PInv, TypeOK
  <2>2. FirstZero(one - 1)
    BY <1>3, <2>1 DEF Results
  <2>3. FirstZero(Last(one))'
    BY <1>1, <2>1, <2>2, FactorResult
  <2> QED
    BY <1>2, <1>3, <2>1, <2>3 DEF Results
<1>5. CASE AdjustFirst
  <2>1. Adjust(one) /\ region' = "update" /\ region = "first" /\ j' = j /\ j[0] = one /\ info' = info
        /\ pc[0] = "adjust" /\ pc'[0] = "laswp"
    BY <1>1, <1>2, <1>3, <1>5 DEF AdjustFirst, PInv, Places, Begin
  <2>2. PivotsAbsolute(one - 1)
    BY <1>3 DEF PivotsAbsolute
  <2>3. PivotsAbsolute(Last(one))'
    BY <1>1, <2>1, <2>2, AdjustResult
  <2>4. FirstZero(Last(one))'
    BY <1>1, <1>2, <1>3, <2>1 DEF Results, FirstZero
  <2> QED
    BY <1>2, <2>1, <2>3, <2>4 DEF Results
<1>6. CASE NextIteration \/ EndRegion
  <2>1. ipiv' = ipiv /\ info' = info
    BY <1>6 DEF NextIteration, EndRegion
  <2>2. \A k : (PivotsAbsolute(k)' <=> PivotsAbsolute(k)) /\ (FirstZero(k)' <=> FirstZero(k))
    BY <1>1, <2>1 DEF PivotsAbsolute, FirstZero
  <2>3. pc[0] = "barrier" /\ region \in {"update", "left"}
    BY <1>1, <1>6 DEF NextIteration, EndRegion, AllWait
  <2>4. CASE NextIteration
    <3>1. region' = region /\ j[0] + nb <= mn /\ j'[0] = j[0] + nb
          /\ (region = "update" => pc'[0] = "laswp")
      BY <1>1, <1>2, <2>4 DEF NextIteration, MorePanels, Begin
    <3> QED
      BY <1>2, <2>2, <2>3, <3>1 DEF Results
  <2>5. CASE EndRegion
    <3>1. region' \in {"left", "done"} /\ ~(j[0] + nb <= mn)
      BY <2>5 DEF EndRegion, MorePanels
    <3>2. Last(j[0]) = mn
      BY <1>1, <1>2, <3>1, LastFacts
    <3>3. PivotsAbsolute(mn) /\ FirstZero(mn)
      BY <2>3, <3>2 DEF Results
    <3> QED
      BY <1>2, <2>2, <3>1, <3>3 DEF Results
  <2> QED
    BY <1>6, <2>4, <2>5
<1> QED
  BY <1>4, <1>5, <1>6 DEF Team

-----------------------------------------------------------------------------
(* The whole invariant: what is done to the columns agrees with every      *)
(* choice of histories, of which there is only one.                        *)
WInv == /\ PInv /\ FullTeam /\ AtPanel /\ Results
        /\ \A H : Histories(H) => Written(H)

LEMMA WInvInit == ASSUME \A p \in Problem : p.team = p.n_threads PROVE Init => WInv
<1> SUFFICES ASSUME NEW p \in Problem, InitWith(p) PROVE WInv
  BY DEF Init
<1>1. PInv
  BY PInvInit DEF Init
<1>2. /\ prob \in Problem /\ prob = p /\ region = "first" /\ info = 0
      /\ col = [c \in Column |-> <<>>] /\ pc = [i \in Thread |-> IF i = 0 THEN "getrf2" ELSE "idle"]
      /\ j = [i \in Thread |-> 1] /\ 0 \in Thread
  BY Sizes DEF InitWith
<1>3. FullTeam
  BY <1>2 DEF FullTeam
<1>4. AtPanel
  BY <1>2, PanelsApart DEF AtPanel
<1>5. pc[0] = "getrf2"
  BY <1>2
<1>6. Results
  BY <1>2, <1>5 DEF Results, FirstZero
<1>7. ASSUME NEW H, Histories(H) PROVE Written(H)
  <2>1. \A c \in Column : col[c] = H[c][0]
    BY <1>2, <1>7, HistoryGrows DEF Histories
  <2> QED
    BY <1>2, <1>5, <2>1 DEF Written, FirstWritten, UpdateWritten, LeftWritten, DoneWritten, Done
<1> QED
  BY <1>1, <1>3, <1>4, <1>6, <1>7 DEF WInv

LEMMA WInvNext == WInv /\ [Next]_vars => WInv'
<1> SUFFICES ASSUME WInv, [Next]_vars PROVE WInv'
  OBVIOUS
<1>1. PInv /\ FullTeam /\ AtPanel /\ Results /\ (\A H : Histories(H) => Written(H)) /\ prob \in Problem
  BY DEF WInv, PInv, TypeOK
<1>2. CASE UNCHANGED vars
  <2>1. /\ prob' = prob /\ region' = region /\ col' = col /\ ipiv' = ipiv /\ info' = info
        /\ pc' = pc /\ j' = j
    BY <1>2 DEF vars
  <2>2. /\ m' = m /\ n' = n /\ nb' = nb /\ mn' = mn /\ Thread' = Thread /\ Column' = Column
        /\ Panels' = Panels
    BY <2>1, SameProblem, SameHistories
  <2>3. \A q : /\ Width(q)' = Width(q) /\ Panel(q)' = Panel(q)
               /\ \A k : UpdatedColumns(k, q)' = UpdatedColumns(k, q) /\ LeftColumns(k, q)' = LeftColumns(k, q)
    BY <2>1, SameColumns, SamePanels
  <2>4. PInv'
    BY <1>1, <2>1, <2>2 DEF PInv, TypeOK, InStep, Places, NextPanel
  <2>5. AtPanel' /\ FullTeam'
    BY <1>1, <2>1, <2>2, <2>3 DEF AtPanel, FullTeam
  <2>6. Results'
    BY <1>1, <2>1, <2>2, <2>3 DEF Results, FirstZero, PivotsAbsolute, Last
  <2>7. ASSUME NEW H, Histories(H)' PROVE Written(H)'
    <3>1. Histories(H)
      BY <2>1, <2>7, SameHistories
    <3>2. Written(H)
      BY <1>1, <3>1
    <3>3. \A h, q, k, c : Stage(h, q, k, c)' = Stage(h, q, k, c)
      BY <2>1, <2>2, <2>3 DEF Stage
    <3>4. \A c : Minimum(c, mn)' = Minimum(c, mn)
      BY <2>2 DEF Minimum
    <3>5. FirstWritten(H)'
      BY <2>1, <2>2, <2>3, <3>2 DEF Written, FirstWritten
    <3>6. UpdateWritten(H)'
      BY <2>1, <2>2, <2>3, <3>2, <3>3 DEF Written, UpdateWritten
    <3>7. LeftWritten(H)'
      BY <2>1, <2>2, <2>3, <3>2, <3>4 DEF Written, LeftWritten
    <3>8. DoneWritten(H)'
      BY <2>1, <2>2, <2>3, <3>2 DEF Written, DoneWritten, Done
    <3> QED
      BY <3>5, <3>6, <3>7, <3>8 DEF Written
  <2> QED
    BY <2>4, <2>5, <2>6, <2>7 DEF WInv
<1>3. ASSUME Team \/ \E i \in Thread : Step(i)
      PROVE  WInv'
  <2>1. prob' = prob
    BY <1>3 DEF Team, FactorFirst, AdjustFirst, NextIteration, EndRegion, Step, Swap, Solve, Update,
                FactorNext, AdjustNext, SwapLeft
  <2>2. PInv' /\ Results'
    BY <1>1, <1>3, StepKeeps, TeamKeeps, StepResults, TeamResults
  <2>3. FullTeam'
    BY <1>1, <2>1 DEF FullTeam
  <2>4. ASSUME NEW H, Histories(H) PROVE Written(H)' /\ AtPanel'
    BY <1>1, <1>3, <2>4, StepWrites, TeamWrites
  <2>5. PICK H : Histories(H)
    <3>1. \A c \in Column : \E h : IsHistory(h, c)
      BY <1>1, HistoryExists
    <3>2. \A c \in Column : IsHistory([d \in Column |-> CHOOSE h : IsHistory(h, d)][c], c)
      BY <3>1, Zenon
    <3> QED
      BY <3>2 DEF Histories
  <2>6. ASSUME NEW G, Histories(G)' PROVE Written(G)'
    BY <2>1, <2>4, <2>6, SameHistories
  <2> QED
    BY <2>2, <2>3, <2>4, <2>5, <2>6 DEF WInv
<1> QED
  BY <1>2, <1>3 DEF Next

(* The team being as large as was asked for, every column undergoes the    *)
(* operations of the factorisation by one thread in the same order, the    *)
(* pivots refer to the whole matrix and info is the first zero pivot, for  *)
(* every size, block size, number of threads and interleaving.             *)
THEOREM FactorIsRight == ASSUME \A p \in Problem : p.team = p.n_threads PROVE Spec => []Factored
<1>1. ASSUME WInv PROVE Factored
  <2> SUFFICES ASSUME Done PROVE Factored
    BY DEF Factored
  <2>1. prob \in Problem /\ PivotsAbsolute(mn) /\ FirstZero(mn)
    BY <1>1 DEF WInv, PInv, TypeOK, Results, Done
  <2>2. ASSUME NEW c \in Column, NEW h, IsHistory(h, c) PROVE col[c] = h[mn]
    <3>1. \A d \in Column : \E g : IsHistory(g, d)
      BY <2>1, HistoryExists
    <3> DEFINE H == [d \in Column |-> IF d = c THEN h ELSE CHOOSE g : IsHistory(g, d)]
    <3>2. ASSUME NEW d \in Column PROVE IsHistory(H[d], d)
      <4>1. CASE d = c
        BY <2>2, <4>1
      <4>2. CASE d # c
        <5>1. H[d] = CHOOSE g : IsHistory(g, d)
          BY <4>2
        <5>2. IsHistory(CHOOSE g : IsHistory(g, d), d)
          BY <3>1, Zenon
        <5> QED
          BY <5>1, <5>2
      <4> QED
        BY <4>1, <4>2
    <3>3. H[c] = h
      OBVIOUS
    <3> HIDE DEF H
    <3>4. Written(H)
      BY <1>1, <3>2 DEF WInv, Histories
    <3> QED
      BY <3>3, <3>4 DEF Written, DoneWritten
  <2>3. ASSUME NEW c \in Column
        PROVE  LET h[k \in 0..mn] == IF k = 0 THEN <<>>
                                     ELSE h[k - 1] \o IF k \in Panels THEN Sequential(c, k) ELSE <<>>
               IN  col[c] = h[mn]
    <3> DEFINE h == CHOOSE g : g = [k \in 0..mn |->
                      IF k = 0 THEN <<>> ELSE g[k - 1] \o IF k \in Panels THEN Sequential(c, k) ELSE <<>>]
    <3>1. \E g : g = [k \in 0..mn |->
             IF k = 0 THEN <<>> ELSE g[k - 1] \o IF k \in Panels THEN Sequential(c, k) ELSE <<>>]
      BY <2>1, HistoryExists DEF IsHistory, Adds
    <3>2. h = [k \in 0..mn |->
             IF k = 0 THEN <<>> ELSE h[k - 1] \o IF k \in Panels THEN Sequential(c, k) ELSE <<>>]
      BY <3>1, Zenon
    <3>3. IsHistory(h, c)
      BY <3>2, Zenon DEF IsHistory, Adds
    <3>4. col[c] = h[mn]
      <4> HIDE DEF h
      <4> QED
        BY <2>2, <3>3
    <3> QED
      BY <3>4, Zenon
  <2>4. \A c \in 1..mn : ipiv[c] = "absolute"
    BY <2>1 DEF PivotsAbsolute
  <2>5. /\ info = 0 => prob.zeros \cap (1..mn) = {}
        /\ info # 0 => info \in prob.zeros /\ \A c \in prob.zeros : info <= c
    BY <2>1 DEF FirstZero
  <2> QED
    BY <2>3, <2>4, <2>5, Zenon DEF Factored
<1>2. Init => WInv
  BY WInvInit
<1> QED
  BY <1>1, <1>2, WInvNext, PTL DEF Spec

=============================================================================
