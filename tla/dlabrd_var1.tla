----------------------------- MODULE dlabrd_var1 -----------------------------
(***************************************************************************)
(* fla_dlabrd_var1, the multithreaded reduction of the first nb rows and   *)
(* columns of a matrix to bidiagonal form                                  *)
(* (src/map/lapack2flamec/f2c/c/dlabrd_var1.c, built with                  *)
(* FLA_OPENMP_MULTITHREADING), on top of the spin barrier of FLA_Barrier.  *)
(*                                                                         *)
(* Barriers cut the work of the team into sections; section s begins when  *)
(* a thread has passed s barriers.  In a section a thread makes the calls  *)
(* for its part of the rows or columns, then waits at the next barrier.    *)
(* Calls of one thread on one part that follow each other are one call     *)
(* here.  A call takes effect in the step that ends it, and until then its *)
(* thread stands at the call.                                              *)
(***************************************************************************)
EXTENDS FLA_Barrier, FLA_Threads, SequencesExt

CONSTANTS
  Problem,    \* the matrices: m rows, n columns, nb of them to reduce
  ElemSize,   \* sizeof(double)
  PerGroup,   \* one thread in PerGroup (8) takes part in the optimal team, ...
  Few         \* ... unless that leaves no more than Few (2)

(* The caller reduces fewer rows and columns than there are.               *)
ASSUME ProblemAssumption ==
  /\ \A p \in Problem : /\ p \in [m : Nat, n : Nat, nb : Nat]
                        /\ 0 < p.nb /\ p.nb < p.m /\ p.nb < p.n
  /\ ElemSize \in Nat \ {0} /\ PerGroup \in Nat \ {0} /\ Few \in Nat

VARIABLES
  prob,     \* the matrix
  call,     \* the number of the call that each thread stands at
  single,   \* for each column the thread in its single section, or NoThread
  hist      \* the calls that have written each element, in order

labrdVars == <<vars, prob, call, single, hist>>

Tall(p) == p.m >= p.n
NoThread == -1

(* The barriers of one iteration, and those of the call.                   *)
PerColumn(p) == IF Tall(p) THEN 10 ELSE 4
Barriers(p) == PerColumn(p) * p.nb

(* optimal_num_threads.                                                    *)
Optimal ==
  LET share == IF NThreads \div PerGroup > 1 THEN NThreads \div PerGroup ELSE 1
  IN  IF share <= Few THEN NThreads ELSE share

-----------------------------------------------------------------------------
(* The elements of the arrays; the scalars d and e are left out.           *)
A(rows, cols) == {"a"} \X rows \X cols
X(rows, cols) == {"x"} \X rows \X cols
Y(rows, cols) == {"y"} \X rows \X cols
Tau(which, i) == {<<which, i, 0>>}
Buffer(cells) == {"gemv_a_row_buffer"} \X cells \X {0}

(* dgebrd allocates as many cells.                                         *)
Cells(p) == 0..((IF p.m > 2 * p.nb THEN p.m + p.nb ELSE 3 * p.nb) - 1)
Element(p) ==
  A(1..p.m, 1..p.n) \cup X(1..p.m, 1..p.nb) \cup Y(1..p.n, 1..p.nb)
    \cup ({"tauq", "taup"} \X (1..p.nb) \X {0}) \cup Buffer(Cells(p))

(* The elements that follow the first'th and belong to thread t's part of  *)
(* a range: in whole cache lines, or in equal shares.                      *)
Lines(t, team, first, range) ==
  LET part == FLA_Thread_get_subrange_chunks(t, team, ElemSize, range)
  IN  (first + part.index + 1)..(first + part.index + part.sub_range)
Shares(t, first, range) ==
  LET part == FLA_Thread_get_subrange(t, NThreads, range)
  IN  (first + part.index + 1)..(first + part.index + part.sub_range)

\* Mutant: every thread makes the calls of thread 0.
OnlyTogether(t, name, reads, writes) ==
  [name |-> name, by |-> "all", reads |-> reads, writes |-> writes]

(* Who makes a call: the threads that have a part, thread 0, or the one    *)
(* that enters the single section first.                                   *)
Team(name, part, reads, writes) ==
  [name |-> name, by |-> IF part = {} THEN "nobody" ELSE "all", reads |-> reads, writes |-> writes]
Only(t, name, reads, writes) ==
  [name |-> name, by |-> IF t = 0 THEN "all" ELSE "nobody", reads |-> reads, writes |-> writes]
Single(name, reads, writes) ==
  [name |-> name, by |-> "single", reads |-> reads, writes |-> writes]

-----------------------------------------------------------------------------
(* m >= n: the calls of thread t in section k of column i.  Each section   *)
(* ends at a barrier.                                                      *)

(* k = 0, the end of the column before: X(i+1:m,i).                        *)
FinishX(p, t, i) ==
  LET rows == Lines(t, Optimal, i, p.m - i)
  IN  <<Team("scale x", rows, X(rows, 1..i) \cup X(1..(i - 1), {i}) \cup Tau("taup", i),
             X(rows, {i}))>>

(* k = 1: A(i:m,i); k = 2: Q(i), which leaves the first element 1.         *)
UpdateColumn(p, t, i) ==
  LET rows == Lines(t, NThreads, i - 1, p.m - i + 1)
  IN  <<Team("update a column", rows,
             A(rows, 1..i) \cup Y({i}, 1..(i - 1)) \cup X(rows, 1..(i - 1)) \cup A(1..(i - 1), {i}),
             A(rows, {i}))>>
ReflectColumn(p, t, i) ==
  <<Only(t, "larfg q", A(i..p.m, {i}), A(i..p.m, {i}) \cup Tau("tauq", i))>>

(* k = 3: Y(i+1:n,i) and, in a single section without a barrier at its     *)
(* end, X(i:m,1:i-1)' * A(i:m,i) and A(i,1:i) into the buffer.             *)
MultiplyColumn(p, t, i) ==
  LET cols == Lines(t, NThreads, i, p.n - i)
  IN  <<Team("y", cols, A(i..p.m, cols) \cup A(i..p.m, {i}), Y(cols, {i})),
        Single("buffer x a", X(i..p.m, 1..(i - 1)) \cup A(i..p.m, {i}) \cup A({i}, 1..i),
               Buffer(p.nb..(p.nb + i - 2)) \cup Buffer(0..(i - 1)))>>

(* k = 4: A(i:m,1:i-1)' * A(i:m,i) goes into the buffer, and what the      *)
(* single section has computed into Y(1:i-1,i).                            *)
ExchangeY(p, t, i) ==
  LET cols == Lines(t, Optimal, 0, i - 1)
  IN  <<Team("exchange y", cols, A(i..p.m, cols) \cup A(i..p.m, {i}) \cup Buffer({p.nb + c - 1 : c \in cols}),
             Y(cols, {i}) \cup Buffer({2 * p.nb + c - 1 : c \in cols}))>>

\* Mutant: the two updates of Y(i+1:n,i) are divided differently.
UpdateYApart(p, t, i) ==
  LET rows == Lines(t, NThreads, i, p.n - i)
      cols == Lines(t, Optimal, i, p.n - i)
  IN  <<Team("update y by y", rows,
             Y(rows, 1..i) \cup Buffer((2 * p.nb)..(2 * p.nb + i - 2)), Y(rows, {i})),
        Team("update y by a", cols, A(1..(i - 1), cols) \cup Buffer(p.nb..(p.nb + i - 2))
             \cup Y(cols, {i}) \cup Tau("tauq", i), Y(cols, {i}))>>

(* k = 5: Y(i+1:n,i) less its products with both, scaled by tauq(i).       *)
UpdateY(p, t, i) ==
  LET rows == Lines(t, Optimal, i, p.n - i)
  IN  <<Team("update y by y", rows,
             Y(rows, 1..i) \cup Buffer((2 * p.nb)..(2 * p.nb + i - 2)), Y(rows, {i})),
        Team("update y by a", rows, A(1..(i - 1), rows) \cup Buffer(p.nb..(p.nb + i - 2))
             \cup Y(rows, {i}) \cup Tau("tauq", i), Y(rows, {i}))>>

\* Mutant: the vector is not copied into the buffer.
ReflectRowOnly(p, t, i) ==
  <<Only(t, "larfg p", A({i}, (i + 1)..p.n), A({i}, (i + 1)..p.n) \cup Tau("taup", i))>>

(* k = 6: A(i,i+1:n); k = 7: P(i), whose vector goes into the buffer.      *)
UpdateRow(p, t, i) ==
  LET cols == Lines(t, Optimal, i, p.n - i)
  IN  <<Team("update a row", cols,
             Y(cols, 1..i) \cup Buffer(0..(i - 1)) \cup A(1..i, cols) \cup X({i}, 1..(i - 1)),
             A({i}, cols))>>
ReflectRow(p, t, i) ==
  <<Only(t, "larfg p", A({i}, (i + 1)..p.n),
         A({i}, (i + 1)..p.n) \cup Tau("taup", i) \cup Buffer(0..(p.n - i - 1)))>>

(* k = 8: X(i+1:m,i), and Y(i+1:n,1:i)' * A(i,i+1:n) into the buffer too.  *)
MultiplyRow(p, t, i) ==
  LET rows == Lines(t, NThreads, i, p.m - i)
      cols == Lines(t, Optimal, 0, i)
  IN  <<Team("x", rows, A(rows, (i + 1)..p.n) \cup Buffer(0..(p.n - i - 1)), X(rows, {i})),
        Team("buffer y a", cols, Y((i + 1)..p.n, cols) \cup A({i}, (i + 1)..p.n),
             X(cols, {i}) \cup Buffer({p.n + c - 1 : c \in cols}))>>

(* k = 9: X(i+1:m,i) less that product, and X(1:i-1,i) for the next one.   *)
UpdateX(p, t, i) ==
  LET rows == Lines(t, Optimal, i, p.m - i)
      cols == Lines(t, Optimal, 0, i - 1)
  IN  <<Team("update x", rows, A(rows, 1..i) \cup Buffer(p.n..(p.n + i - 1)) \cup X(rows, {i}),
             X(rows, {i})),
        Team("x above", cols, A(cols, (i + 1)..p.n) \cup A({i}, (i + 1)..p.n), X(cols, {i}))>>

TallCalls(p, t, i, k) ==
  CASE k = 0 -> IF i > 1 THEN FinishX(p, t, i - 1) ELSE <<>>
    [] k = 1 -> UpdateColumn(p, t, i)
    [] k = 2 -> ReflectColumn(p, t, i)
    [] k = 3 -> MultiplyColumn(p, t, i)
    [] k = 4 -> ExchangeY(p, t, i)
    [] k = 5 -> UpdateY(p, t, i)
    [] k = 6 -> UpdateRow(p, t, i)
    [] k = 7 -> ReflectRow(p, t, i)
    [] k = 8 -> MultiplyRow(p, t, i)
    [] k = 9 -> UpdateX(p, t, i)

-----------------------------------------------------------------------------
(* m < n: thread 0 does all but the two products with the whole matrix.    *)

(* k = 0, the end of the column before: Y(i+1:n,i), ...                    *)
FinishWideY(p, t, i) ==
  <<Only(t, "finish y", A((i + 1)..p.m, 1..i) \cup Y((i + 1)..p.n, 1..i) \cup X((i + 1)..p.m, 1..i)
         \cup A(1..i, (i + 1)..p.n) \cup Tau("tauq", i), Y(1..p.n, {i}))>>

(* ... then A(i,i:n) and P(i).                                             *)
WideRow(p, t, i) ==
  <<Only(t, "row and larfg p", Y(i..p.n, 1..(i - 1)) \cup A({i}, 1..p.n) \cup A(1..i, i..p.n)
         \cup X({i}, 1..(i - 1)), A({i}, i..p.n) \cup Tau("taup", i))>>

(* k = 1: X(i+1:m,i); k = 2: the rest of X(:,i), A(i+1:m,i) and Q(i);      *)
(* k = 3: Y(i+1:n,i).                                                      *)
WideX(p, t, i) ==
  LET rows == Shares(t, i, p.m - i)
  IN  <<Team("x", rows, A(rows, i..p.n) \cup A({i}, i..p.n), X(rows, {i}))>>
WideColumn(p, t, i) ==
  <<Only(t, "finish x, column and larfg q",
         Y(i..p.n, 1..(i - 1)) \cup A((i + 1)..p.m, 1..i) \cup A(1..i, i..p.n)
           \cup X(1..p.m, 1..i) \cup Tau("taup", i),
         X((1..p.m) \ {i}, {i}) \cup A((i + 1)..p.m, {i}) \cup Tau("tauq", i))>>
WideY(p, t, i) ==
  LET cols == Shares(t, i, p.n - i)
  IN  <<Team("y", cols, A((i + 1)..p.m, cols) \cup A((i + 1)..p.m, {i}), Y(cols, {i}))>>

WideCalls(p, t, i, k) ==
  CASE k = 0 -> (IF i > 1 THEN FinishWideY(p, t, i - 1) ELSE <<>>)
                  \o (IF i <= p.nb THEN WideRow(p, t, i) ELSE <<>>)
    [] k = 1 -> WideX(p, t, i)
    [] k = 2 -> WideColumn(p, t, i)
    [] k = 3 -> WideY(p, t, i)

-----------------------------------------------------------------------------
(* The column that a thread is in after s barriers, and its calls there.   *)
Column(p, s) == (s \div PerColumn(p)) + 1

CallsIn(p, t, s) ==
  CASE s > Barriers(p)             -> <<>>
    [] s <= Barriers(p) /\ Tall(p)  -> TallCalls(p, t, Column(p, s), s % 10)
    [] s <= Barriers(p) /\ ~Tall(p) -> WideCalls(p, t, Column(p, s), s % 4)

CallTable == [p \in Problem |-> [t \in Thread |-> [s \in 0..MaxRounds |-> CallsIn(p, t, s)]]]
Calls(t) == CallTable[prob][t][passed[t]]
Here(t) == Column(prob, passed[t])

(* Thread t stands at a call, has made those of its section, is through.   *)
AtCall(t) == pc[t] = "outside" /\ call[t] <= Len(Calls(t))
Current(t) == Calls(t)[call[t]]
SectionDone(t) == pc[t] = "outside" /\ call[t] > Len(Calls(t))
Through(t) == SectionDone(t) /\ passed[t] = Barriers(prob)

Write(h, c, i) ==
  [x \in DOMAIN h |-> IF x \in c.writes THEN Append(h[x], <<i, c.name>>) ELSE h[x]]

Begin ==
  /\ Init
  /\ prob \in {p \in Problem : Barriers(p) <= MaxRounds}
  /\ call = [t \in Thread |-> 1]
  /\ single = [i \in 1..prob.nb |-> NoThread]
  /\ hist = [x \in Element(prob) |-> <<>>]

EnterSingle(t) ==
  /\ AtCall(t) /\ Current(t).by = "single" /\ single[Here(t)] = NoThread
  /\ single' = [single EXCEPT ![Here(t)] = t]
  /\ UNCHANGED <<vars, prob, call, hist>>

Makes(t) ==
  Current(t).by = "all" \/ (Current(t).by = "single" /\ single[Here(t)] = t)

MakeCall(t) ==
  /\ AtCall(t) /\ Makes(t)
  /\ hist' = Write(hist, Current(t), Here(t))
  /\ call' = [call EXCEPT ![t] = @ + 1]
  /\ UNCHANGED <<vars, prob, single>>

SkipCall(t) ==
  /\ AtCall(t) /\ ~Makes(t)
  /\ Current(t).by = "single" => single[Here(t)] # NoThread
  /\ call' = [call EXCEPT ![t] = @ + 1]
  /\ UNCHANGED <<vars, prob, single, hist>>

(* FLA_BARRIER_WAIT, when the calls of the section are made.               *)
BarrierWait(t) ==
  /\ pc[t] = "outside" => SectionDone(t) /\ ~Through(t)
  /\ Step(t)
  /\ call' = [call EXCEPT ![t] = IF pc'[t] = "outside" THEN 1 ELSE @]
  /\ UNCHANGED <<prob, single, hist>>

Work(t) == EnterSingle(t) \/ MakeCall(t) \/ SkipCall(t) \/ BarrierWait(t)

Returned == (\A t \in Thread : Through(t)) /\ UNCHANGED labrdVars

LabrdNext == (\E t \in Thread : Work(t)) \/ Returned

LabrdSpec == Begin /\ [][LabrdNext]_labrdVars

(* OpenMP runs every thread of the team.                                   *)
LabrdFairSpec == LabrdSpec /\ \A t \in Thread : WF_labrdVars(Work(t))

-----------------------------------------------------------------------------
Performing(t) == AtCall(t) /\ Makes(t)

(* No two threads are in calls of which one writes what the other reads or *)
(* writes: a barrier lies between any two sections that depend on each     *)
(* other, the single section without one included.                         *)
NoDataRace ==
  \A t \in Thread, u \in Thread :
    t # u /\ Performing(t) /\ Performing(u) =>
      Current(t).writes \cap (Current(u).reads \cup Current(u).writes) = {}

(* The reduction of column i as one thread does it: which call writes      *)
(* what.                                                                   *)
SerialColumn(p, i) ==
  IF Tall(p)
  THEN << <<"update a column", A(i..p.m, {i})>>,
          <<"larfg q", A(i..p.m, {i}) \cup Tau("tauq", i)>>,
          <<"y", Y((i + 1)..p.n, {i})>>,
          <<"exchange y", Y(1..(i - 1), {i})>>,
          <<"update y by y", Y((i + 1)..p.n, {i})>>,
          <<"update y by a", Y((i + 1)..p.n, {i})>>,
          <<"update a row", A({i}, (i + 1)..p.n)>>,
          <<"larfg p", A({i}, (i + 1)..p.n) \cup Tau("taup", i)>>,
          <<"x", X((i + 1)..p.m, {i})>>,
          <<"buffer y a", X(1..i, {i})>>,
          <<"update x", X((i + 1)..p.m, {i})>>,
          <<"x above", X(1..(i - 1), {i})>>,
          <<"scale x", X((i + 1)..p.m, {i})>> >>
  ELSE << <<"row and larfg p", A({i}, i..p.n) \cup Tau("taup", i)>>,
          <<"x", X((i + 1)..p.m, {i})>>,
          <<"finish x, column and larfg q",
            X((1..p.m) \ {i}, {i}) \cup A((i + 1)..p.m, {i}) \cup Tau("tauq", i)>>,
          <<"y", Y((i + 1)..p.n, {i})>>,
          <<"finish y", Y(1..p.n, {i})>> >>

(* The calls of the serial reduction that write element x: the column and  *)
(* the place in it.                                                        *)
PerSerialColumn(p) == IF Tall(p) THEN 13 ELSE 5
SerialCall(p, w) == SerialColumn(p, w[1])[w[2]]
SerialWriters(p, x) ==
  {w \in (1..p.nb) \X (1..PerSerialColumn(p)) : x \in SerialCall(p, w)[2]}

(* What the team records of a call: the last one of a column it makes in   *)
(* the first section of the next.                                          *)
Record(p, w) ==
  <<IF w[2] = PerSerialColumn(p) THEN w[1] + 1 ELSE w[1], SerialCall(p, w)[1]>>

Earlier(v, w) == v[1] < w[1] \/ (v[1] = w[1] /\ v[2] < w[2])

(* In the end every element has been written by the same calls, each once  *)
(* and in the same order as by a single thread: the parts of the threads   *)
(* cover each range once, also where one update of an element is divided   *)
(* in another way than the next one.                                       *)
SerialResult ==
  (\A t \in Thread : Through(t)) =>
    \A x \in Element(prob) \ Buffer(Cells(prob)) :
      /\ {hist[x][q] : q \in DOMAIN hist[x]} = {Record(prob, w) : w \in SerialWriters(prob, x)}
      /\ \A v \in SerialWriters(prob, x), w \in SerialWriters(prob, x) :
           \A q \in DOMAIN hist[x], r \in DOMAIN hist[x] :
             hist[x][q] = Record(prob, v) /\ hist[x][r] = Record(prob, w) =>
               (q < r <=> Earlier(v, w))

(* Which call fills the cells of the buffer that a call reads.             *)
FilledBy ==
  [c \in {"update y by y", "update y by a", "exchange y", "update a row", "x", "update x"} |->
     CASE c = "update y by y" -> "exchange y"
       [] c \in {"update y by a", "exchange y", "update a row"} -> "buffer x a"
       [] c = "x"             -> "larfg p"
       [] c = "update x"      -> "buffer y a"]

(* The one buffer holds up to three vectors at a time, and each of its     *)
(* parts is used again in the same column: a call finds in it what was     *)
(* computed for it in this column, not what was there before nor what is   *)
(* to come.                                                                *)
BufferCurrent ==
  \A t \in Thread : Performing(t) /\ Tall(prob) =>
    \A x \in Current(t).reads \cap Buffer(Cells(prob)) :
      hist[x] # <<>> /\ Last(hist[x]) = <<Here(t), FilledBy[Current(t).name]>>

(* Every thread of the team gets through the whole reduction.              *)
Returns == <>(\A t \in Thread : Through(t))

=============================================================================
