------------------------ MODULE dsytrd_sb2st_proofs ------------------------
(***************************************************************************)
(* Theorems about dsytrd_sb2st, for every order, bandwidth and team: the   *)
(* depend clauses order all kernels that touch the same data, each kernel  *)
(* applies the reflector that was made for it, and the region ends with a  *)
(* tridiagonal matrix.                                                     *)
(*                                                                         *)
(* A task is known by its sweep s and its number k in the sweep.  The      *)
(* loops generate it at the moment k + 3 s, and the sweeps of one moment   *)
(* from the first to the last.  Two tasks depend on each other if their    *)
(* numbers differ by two at most, whatever their sweeps: a task is ordered *)
(* behind the task k + 2 of the sweep before it, behind k + 4 of the one   *)
(* before that, and so on (Trails).  What a task touches meets nothing     *)
(* that is farther ahead (ConflictsTrail).                                 *)
(*                                                                         *)
(* The matrix follows from that order: what a sweep has cleared stays      *)
(* clear, since the tasks that fill the column again come before its first *)
(* one, and an element outside of the band waits for the same task of the  *)
(* next sweep (MatrixInv).                                                 *)
(***************************************************************************)
EXTENDS dsytrd_sb2st, FiniteSetTheorems, TLAPS

-----------------------------------------------------------------------------
(* The tasks.                                                              *)

(* The number of the block of columns that the task k of a sweep works on. *)
Half(k) == (k + 1) \div 2

(* The last column of that block, were the matrix large enough.            *)
Column(s, k) == Half(k) * KD + s

TaskAt(s, k) ==
  [myid |-> k, sweep |-> s, ttype |-> IF k = 1 THEN 1 ELSE (k % 2) + 2,
   st |-> Column(s, k) - KD + 1, ed |-> Min2(Column(s, k), N), colpt |-> Column(s, k)]

ProbOK == N \in Nat /\ N > 0 /\ KD \in Nat /\ KD > 1

LEMMA ProblemOK == ASSUME prob \in Problem PROVE ProbOK
BY ProblemAssumption DEF ProbOK, N, KD, ProblemType

LEMMA HalfFacts ==
  ASSUME NEW k \in Nat, k > 0
  PROVE  /\ Half(k) \in Nat /\ Half(k) > 0
         /\ \/ k = 2 * Half(k) /\ k % 2 = 0 /\ k \div 2 = Half(k)
            \/ k = 2 * Half(k) - 1 /\ k % 2 = 1
BY DEF Half

LEMMA Product ==
  ASSUME NEW a \in Nat, NEW b \in Nat
  PROVE  a * b \in Nat
BY Z3

LEMMA ColumnType ==
  ASSUME ProbOK, NEW s \in Nat, NEW k \in Nat, k > 0
  PROVE  Column(s, k) \in Nat /\ Column(s, k) >= KD + s
<1>1. Half(k) \in Nat /\ Half(k) > 0
  BY HalfFacts
<1>2. Half(k) * KD \in Nat /\ Half(k) * KD >= KD
  <2> DEFINE j == Half(k)
             w == KD
  <2>1. j \in Nat /\ j > 0 /\ w \in Nat
    BY <1>1 DEF ProbOK
  <2> HIDE DEF j, w
  <2>2. j * w \in Nat /\ j * w >= w
    BY <2>1, Z3
  <2>3. QED
    BY <2>2 DEF j, w
<1>3. QED
  BY <1>2 DEF Column, ProbOK

(* From one number to a greater one the columns move on by that many whole *)
(* blocks.                                                                 *)
LEMMA Blocks ==
  ASSUME ProbOK, NEW s \in Nat, NEW t \in Nat, NEW k \in Nat, NEW l \in Nat, k > 0, l > 0,
         NEW d \in Nat, Half(k) >= Half(l) + d
  PROVE  /\ d * KD \in Nat
         /\ Column(s, k) - s >= Column(t, l) - t + d * KD
<1> DEFINE i == Half(k)
           j == Half(l)
           w == KD
<1>1. i \in Nat /\ j \in Nat /\ w \in Nat /\ i >= j + d
  BY HalfFacts DEF ProbOK
<1>2. i * w \in Nat /\ j * w \in Nat /\ Column(s, k) = i * w + s /\ Column(t, l) = j * w + t
  <2>1. Column(s, k) = i * w + s /\ Column(t, l) = j * w + t
    BY DEF Column
  <2>2. QED
    BY <1>1, <2>1, Product
<1> HIDE DEF i, j, w
<1>3. d * w \in Nat /\ i * w >= (j + d) * w /\ (j + d) * w = j * w + d * w
  BY <1>1, Z3
<1>4. QED
  BY <1>2, <1>3 DEF w

LEMMA Multiples ==
  ASSUME ProbOK, NEW d \in Nat
  PROVE  d * KD \in Nat /\ d * KD >= 2 * d /\ (d > 0 => d * KD >= KD + 2 * d - 2)
<1> DEFINE w == KD
<1>1. w \in Nat /\ w > 1
  BY DEF ProbOK
<1> HIDE DEF w
<1>2. d * w \in Nat /\ d * w >= 2 * d
  BY <1>1, Z3
<1>3. ASSUME d > 0 PROVE d * w >= w + 2 * d - 2
  <2>1. PICK c \in Nat : d = c + 1
    <3>1. d - 1 \in Nat /\ d = (d - 1) + 1
      BY <1>3
    <3>2. QED
      BY <3>1
  <2>2. (c + 1) * w = c * w + w /\ c * w >= 2 * c
    BY <1>1, Z3
  <2>3. QED
    BY <1>1, <2>1, <2>2, Product
<1>4. QED
  BY <1>2, <1>3 DEF w

LEMMA KernelIs ==
  ASSUME ProbOK, NEW p \in [i : Nat, m : 1..shift, sweep : Nat], p.sweep <= p.i
  PROVE  Myid(p) \in Nat /\ Myid(p) > 0 /\ Kernel(p) = TaskAt(p.sweep, Myid(p))
<1>1. Myid(p) \in Nat /\ Myid(p) > 0
  BY DEF Myid, shift
<1> DEFINE k == Myid(p)
<1> HIDE DEF k
<1>2. k \in Nat /\ k > 0
  BY <1>1 DEF k
<1>3. /\ Half(k) \in Nat /\ Half(k) > 0
      /\ \/ k = 2 * Half(k) /\ k % 2 = 0 /\ k \div 2 = Half(k)
         \/ k = 2 * Half(k) - 1 /\ k % 2 = 1
  BY <1>2, HalfFacts
<1> DEFINE ttype == IF k = 1 THEN 1 ELSE (k % 2) + 2
           colpt == (IF ttype = 2 THEN k \div 2 ELSE (k + 1) \div 2) * KD + p.sweep
<1>4. (IF ttype = 2 THEN k \div 2 ELSE (k + 1) \div 2) = Half(k)
  <2>1. CASE ttype = 2
    BY <1>2, <1>3, <2>1
  <2>2. CASE ttype # 2
    BY <2>2 DEF Half
  <2>3. QED
    BY <2>1, <2>2
<1>5. colpt = Column(p.sweep, k)
  BY <1>4 DEF Column
<1>6. Kernel(p) = [myid |-> k, sweep |-> p.sweep, ttype |-> ttype,
                   st |-> colpt - KD + 1, ed |-> Min2(colpt, N), colpt |-> colpt]
  BY DEF Kernel, k
<1>7. QED
  BY <1>1, <1>5, <1>6 DEF TaskAt, k

(* The end of a sweep.                                                     *)
Even(k) == k % 2 = 0

LEMMA EndsAt ==
  ASSUME ProbOK, NEW s \in Nat, NEW k \in Nat, k > 0
  PROVE  EndsSweep(TaskAt(s, k)) <=>
           IF Even(k) THEN Column(s, k) >= N - 1
                      ELSE Column(s, k) >= N /\ Column(s, k) - KD >= N - 2
<1>1. Column(s, k) \in Nat /\ N \in Nat /\ KD \in Nat
  BY ColumnType DEF ProbOK
<1>2. k % 2 \in {0, 1} /\ (k = 1 => k % 2 = 1)
  OBVIOUS
<1>3. QED
  BY <1>1, <1>2 DEF EndsSweep, TaskAt, Min2, Even

-----------------------------------------------------------------------------
(* What a task touches.                                                    *)

LEMMA TaskFields ==
  ASSUME NEW s, NEW k
  PROVE  LET x == TaskAt(s, k) IN
         /\ x.myid = k /\ x.sweep = s /\ x.ttype = IF k = 1 THEN 1 ELSE (k % 2) + 2
         /\ x.st = Column(s, k) - KD + 1 /\ x.ed = Min2(Column(s, k), N)
         /\ x.colpt = Column(s, k)
BY DEF TaskAt

(* The elements of the matrix: those of a diagonal block in the columns of *)
(* the task and, of the first task, the column that it annihilates; or     *)
(* those of the block below.                                               *)
LEMMA ElementsWithin ==
  ASSUME ProbOK, NEW s \in Nat, NEW k \in Nat, k > 0,
         NEW e \in Elements(TaskAt(s, k))
  PROVE  /\ e[1] \in Int /\ e[2] \in Int /\ e = <<e[1], e[2]>>
         /\ e[2] <= e[1] /\ e[2] <= Column(s, k) /\ e[1] <= N
         /\ e[2] > Column(s, k) - KD \/ (k = 1 /\ e[2] = Column(s, k) - KD)
         /\ Even(k) => e[1] > Column(s, k) /\ e[1] <= Column(s, k) + KD
         /\ ~Even(k) => e[1] <= Column(s, k)
<1> DEFINE c == Column(s, k)
           x == TaskAt(s, k)
<1>1. c \in Nat /\ c >= KD + s /\ KD \in Nat /\ KD > 1 /\ N \in Nat
  BY ColumnType DEF ProbOK
<1>2. k % 2 \in {0, 1} /\ (k = 1 => k % 2 = 1)
  OBVIOUS
<1>3. x.ttype = (IF k = 1 THEN 1 ELSE (k % 2) + 2) /\ x.st = c - KD + 1 /\ x.ed = Min2(c, N)
  BY TaskFields
<1>4. x.ed \in Int /\ x.ed <= c /\ x.ed <= N /\ (x.ed = c \/ x.ed = N)
  BY <1>1, <1>3 DEF Min2
<1> DEFINE Inside ==
      /\ e[1] \in Int /\ e[2] \in Int /\ e = <<e[1], e[2]>>
      /\ e[2] <= e[1] /\ e[2] <= c /\ e[1] <= N
      /\ e[2] > c - KD \/ (k = 1 /\ e[2] = c - KD)
      /\ k % 2 = 0 => e[1] > c /\ e[1] <= c + KD
      /\ k % 2 # 0 => e[1] <= c
<1> HIDE DEF c, x
<1>5. e \in Elements(x)
  BY DEF x
<1>6. ASSUME k = 1 PROVE Inside
  <2>1. e \in Lower(x.st, x.ed) \cup (Columns(x) \X {x.st - 1})
    BY <1>3, <1>5, <1>6 DEF Elements
  <2>2. CASE e \in Lower(x.st, x.ed)
    BY <1>1, <1>2, <1>3, <1>4, <1>6, <2>2 DEF Lower
  <2>3. CASE e \in Columns(x) \X {x.st - 1}
    BY <1>1, <1>2, <1>3, <1>4, <1>6, <2>3 DEF Columns
  <2>4. QED
    BY <2>1, <2>2, <2>3
<1>7. ASSUME k # 1, k % 2 = 0 PROVE Inside
  <2>1. e \in Below(x) \X Columns(x)
    BY <1>3, <1>5, <1>7 DEF Elements
  <2>2. e[1] \in (x.ed + 1)..Min2(x.ed + KD, N) /\ e[2] \in x.st..x.ed /\ e = <<e[1], e[2]>>
    BY <2>1 DEF Below, Columns
  <2>3. e[1] <= x.ed + KD /\ e[1] <= N /\ e[1] > x.ed /\ e[1] \in Int /\ e[2] \in Int
    BY <1>1, <1>4, <2>2 DEF Min2
  <2>4. x.ed = c
    BY <1>1, <1>4, <2>3
  <2>5. e[2] > c - KD /\ e[2] <= c
    BY <1>1, <1>3, <2>2, <2>3, <2>4
  <2>6. QED
    BY <1>1, <1>7, <2>2, <2>3, <2>4, <2>5
<1>8. ASSUME k # 1, k % 2 = 1 PROVE Inside
  <2>1. e \in Lower(x.st, x.ed)
    BY <1>3, <1>5, <1>8 DEF Elements
  <2>2. QED
    BY <1>1, <1>3, <1>4, <1>8, <2>1 DEF Lower
<1>9. QED
  BY <1>2, <1>6, <1>7, <1>8 DEF c, Even

(* The places of the reflectors that it makes and uses.                    *)
LEMMA MakesWithin ==
  ASSUME ProbOK, NEW s \in Nat, NEW k \in Nat, k > 0, NEW z \in Makes(TaskAt(s, k))
  PROVE  /\ z[1] = (s - 1) % 2 /\ z[2] \in Int /\ z[2] <= N /\ z = <<z[1], z[2]>>
         /\ \/ k = 1 /\ z[2] > Column(s, k) - KD /\ z[2] <= Column(s, k)
            \/ Even(k) /\ z[2] > Column(s, k) /\ z[2] <= Column(s, k) + KD
<1> DEFINE c == Column(s, k)
           x == TaskAt(s, k)
<1>1. c \in Nat /\ c >= KD + s /\ KD \in Nat /\ KD > 1 /\ N \in Nat
  BY ColumnType DEF ProbOK
<1>2. k % 2 \in {0, 1} /\ (k = 1 => k % 2 = 1)
  OBVIOUS
<1>3. /\ x.ttype = (IF k = 1 THEN 1 ELSE (k % 2) + 2) /\ x.st = c - KD + 1
      /\ x.ed = Min2(c, N) /\ x.sweep = s
  BY TaskFields
<1>4. x.ed \in Int /\ x.ed <= c /\ x.ed <= N /\ (x.ed = c \/ x.ed = N)
  BY <1>1, <1>3 DEF Min2
<1> HIDE DEF c, x
<1>5. z \in Makes(x)
  BY DEF x
<1>6. CASE k = 1
  <2>1. z \in {(s - 1) % 2} \X (x.st..x.ed)
    BY <1>3, <1>5, <1>6 DEF Makes, Slots, Columns
  <2>2. QED
    BY <1>1, <1>3, <1>4, <1>6, <2>1 DEF c
<1>7. CASE k # 1 /\ k % 2 = 0
  <2>1. z \in {(s - 1) % 2} \X Below(x)
    BY <1>3, <1>5, <1>7 DEF Makes, Slots
  <2>2. z[1] = (s - 1) % 2 /\ z[2] \in (x.ed + 1)..Min2(x.ed + KD, N) /\ z = <<z[1], z[2]>>
    BY <2>1 DEF Below
  <2>3. z[2] <= x.ed + KD /\ z[2] <= N /\ z[2] > x.ed /\ z[2] \in Int
    BY <1>1, <1>4, <2>2 DEF Min2
  <2>4. x.ed = c
    BY <1>1, <1>4, <2>3
  <2>5. QED
    BY <1>1, <1>7, <2>2, <2>3, <2>4 DEF c, Even
<1>8. CASE k # 1 /\ k % 2 = 1
  BY <1>3, <1>5, <1>8 DEF Makes
<1>9. QED
  BY <1>2, <1>6, <1>7, <1>8

LEMMA UsesWithin ==
  ASSUME ProbOK, NEW s \in Nat, NEW k \in Nat, k > 0, NEW z \in Uses(TaskAt(s, k))
  PROVE  /\ k > 1 /\ z[1] = (s - 1) % 2 /\ z[2] \in Int /\ z[2] <= N /\ z = <<z[1], z[2]>>
         /\ z[2] > Column(s, k) - KD /\ z[2] <= Column(s, k)
<1> DEFINE c == Column(s, k)
           x == TaskAt(s, k)
<1>1. c \in Nat /\ c >= KD + s /\ KD \in Nat /\ KD > 1 /\ N \in Nat
  BY ColumnType DEF ProbOK
<1>3. /\ x.ttype = (IF k = 1 THEN 1 ELSE (k % 2) + 2) /\ x.st = c - KD + 1
      /\ x.ed = Min2(c, N) /\ x.sweep = s
  BY TaskFields
<1>4. x.ed \in Int /\ x.ed <= c /\ x.ed <= N
  BY <1>1, <1>3 DEF Min2
<1> HIDE DEF c, x
<1>5. z \in Uses(x)
  BY DEF x
<1>6. k # 1 /\ z \in {(s - 1) % 2} \X (x.st..x.ed)
  BY <1>3, <1>5 DEF Uses, Slots, Columns
<1>7. QED
  BY <1>1, <1>3, <1>4, <1>6 DEF c

-----------------------------------------------------------------------------
(* Conflicts.                                                              *)

(* A task that is more than two numbers per sweep ahead works on columns   *)
(* behind all that the later sweep has reached.                            *)
LEMMA FarApart ==
  ASSUME ProbOK, NEW s \in Nat, NEW d \in Nat, d > 0, NEW k \in Nat, NEW l \in Nat, k > 0, l > 0,
         k > l + 2 * d
  PROVE  /\ Even(l) => Column(s, k) - KD >= Column(s + d, l)
         /\ ~Even(l) /\ (d > 1 \/ ~Even(k)) => Column(s, k) - KD >= Column(s + d, l)
         /\ Column(s, k) > Column(s + d, l)
         /\ Even(l) /\ d > 1 => Column(s, k) - KD >= Column(s + d, l) + KD
<1> DEFINE c == Column(s, k)
           b == Column(s + d, l)
<1>0. s + d \in Nat
  OBVIOUS
<1>1. c \in Nat /\ b \in Nat /\ KD \in Nat /\ KD > 1 /\ s + d \in Nat
  BY <1>0, ColumnType DEF ProbOK
<1>2. /\ Half(k) \in Nat /\ Half(l) \in Nat
      /\ (k = 2 * Half(k) /\ k % 2 = 0) \/ (k = 2 * Half(k) - 1 /\ k % 2 = 1)
      /\ (l = 2 * Half(l) /\ l % 2 = 0) \/ (l = 2 * Half(l) - 1 /\ l % 2 = 1)
  BY HalfFacts
<1>3. Half(k) >= Half(l) + d /\ (Even(l) \/ (~Even(k) /\ ~Even(l)) => Half(k) >= Half(l) + (d + 1))
  BY <1>2 DEF Even
<1>4. d * KD \in Nat /\ d * KD >= 2 * d /\ d * KD >= KD + 2 * d - 2 /\ c - s >= b - (s + d) + d * KD
  BY <1>1, <1>3, Multiples, Blocks
<1>5. ASSUME Even(l) \/ (~Even(k) /\ ~Even(l))
      PROVE  c - s >= b - (s + d) + (d * KD + KD)
  <2>1. (d + 1) * KD = d * KD + KD
    <3> DEFINE w == KD
    <3>1. w \in Nat
      BY <1>1
    <3> HIDE DEF w
    <3>2. (d + 1) * w = d * w + w
      BY <3>1, Z3
    <3>3. QED
      BY <3>2 DEF w
  <2>2. Half(k) >= Half(l) + (d + 1) /\ d + 1 \in Nat
    BY <1>3, <1>5
  <2>3. c - s >= b - (s + d) + (d + 1) * KD
    BY <1>1, <2>2, Blocks
  <2>4. QED
    BY <2>1, <2>3
<1> DEFINE e == d * KD
<1>6. e \in Nat /\ e >= 2 * d /\ e >= KD + 2 * d - 2 /\ c - s >= b - (s + d) + e
  BY <1>4
<1>7. Even(l) \/ (~Even(k) /\ ~Even(l)) => c - s >= b - (s + d) + (e + KD)
  BY <1>5
<1> HIDE DEF c, b, e
<1>8. (Even(l) \/ (~Even(k) /\ ~Even(l)) => c - KD >= b + d) /\ (d > 1 => c - KD >= b) /\ c > b
  BY <1>1, <1>6, <1>7
<1>9. Even(l) /\ d > 1 => c - KD >= b + KD
  BY <1>1, <1>6, <1>7
<1>10. QED
  BY <1>1, <1>8, <1>9 DEF c, b

(* What two tasks of different sweeps both touch and one of them writes,   *)
(* the earlier sweep touches first: it is then no more than two numbers    *)
(* per sweep ahead.                                                        *)
LEMMA ConflictsTrail ==
  ASSUME ProbOK, NEW s \in Nat, NEW d \in Nat, d > 0, NEW k \in Nat, NEW l \in Nat, k > 0, l > 0,
         Conflict(TaskAt(s, k), TaskAt(s + d, l)) \/ Conflict(TaskAt(s + d, l), TaskAt(s, k))
  PROVE  k <= l + 2 * d
<1> SUFFICES ASSUME k > l + 2 * d PROVE FALSE
  OBVIOUS
<1> DEFINE c == Column(s, k)
           b == Column(s + d, l)
           x == TaskAt(s, k)
           y == TaskAt(s + d, l)
<1>0. s + d \in Nat
  OBVIOUS
<1>1. c \in Nat /\ b \in Nat /\ KD \in Nat /\ KD > 1 /\ s + d \in Nat
  BY <1>0, ColumnType DEF ProbOK
<1>2. /\ Even(l) => c - KD >= b
      /\ ~Even(l) /\ (d > 1 \/ ~Even(k)) => c - KD >= b
      /\ c > b
      /\ Even(l) /\ d > 1 => c - KD >= b + KD
  BY FarApart
<1>3. ASSUME NEW e \in Elements(x), e \in Elements(y) PROVE FALSE
  <2>1. /\ e[1] \in Int /\ e[2] \in Int /\ e[2] > c - KD
        /\ Even(k) => e[1] > c
    BY ElementsWithin
  <2>2. e[2] <= b /\ (~Even(l) => e[1] <= b)
    BY <1>1, <1>3, ElementsWithin
  <2> HIDE DEF c, b
  <2>3. QED
    BY <1>1, <1>2, <2>1, <2>2
<1>4. ASSUME NEW z, z \in Makes(x) \cup Uses(x), z \in Makes(y) \cup Uses(y) PROVE FALSE
  <2>1. z[1] = (s - 1) % 2 /\ z[2] \in Int /\ z[2] > c - KD
    <3>1. CASE z \in Makes(x)
      <4>1. z[1] = (s - 1) % 2 /\ z[2] \in Int /\ (z[2] > c - KD \/ z[2] > c)
        BY <3>1, MakesWithin
      <4> HIDE DEF c
      <4>2. QED
        BY <1>1, <4>1
    <3>2. CASE z \in Uses(x)
      BY <3>2, UsesWithin
    <3>3. QED
      BY <1>4, <3>1, <3>2
  <2>2. z[1] = (s + d - 1) % 2 /\ (z[2] <= b \/ (Even(l) /\ z[2] <= b + KD))
    <3>1. CASE z \in Makes(y)
      BY <1>1, <3>1, MakesWithin
    <3>2. CASE z \in Uses(y)
      BY <1>1, <3>2, UsesWithin
    <3>3. QED
      BY <1>4, <3>1, <3>2
  <2>3. d > 1
    BY <2>1, <2>2
  <2> HIDE DEF c, b
  <2>4. QED
    BY <1>1, <1>2, <2>1, <2>2, <2>3
<1> HIDE DEF x, y
<1>5. Conflict(x, y) \/ Conflict(y, x)
  BY DEF x, y
<1>6. \/ \E e \in Elements(x) : e \in Elements(y)
      \/ \E z : z \in Makes(x) \cup Uses(x) /\ z \in Makes(y) \cup Uses(y)
  BY <1>5, Zenon DEF Conflict
<1>7. QED
  BY <1>3, <1>4, <1>6

-----------------------------------------------------------------------------
(* The loops.                                                              *)

(* When a sweep has reached the end of the matrix, one that is f sweeps    *)
(* ahead has done so two numbers later for each of them at most.           *)
LEMMA EndsBehind ==
  ASSUME ProbOK, NEW s \in Nat, NEW f \in Nat, f > 0, NEW r \in Nat, r > 0,
         EndsSweep(TaskAt(s + f, r))
  PROVE  \/ EndsSweep(TaskAt(s, r + 2 * f))
         \/ r + 2 * f - 1 \in Nat /\ EndsSweep(TaskAt(s, r + 2 * f - 1))
<1>0. s + f \in Nat /\ r + 2 * f \in Nat /\ r + 2 * f > 0 /\ r + 2 * f - 1 \in Nat
      /\ r + 2 * f - 1 > 0
  OBVIOUS
<1>1. Column(s + f, r) \in Nat /\ KD \in Nat /\ KD > 1 /\ N \in Nat
  BY <1>0, ColumnType DEF ProbOK
<1>2. IF Even(r) THEN Column(s + f, r) >= N - 1 ELSE Column(s + f, r) >= N
  BY <1>0, EndsAt
<1>3. /\ Half(r) \in Nat
      /\ (r = 2 * Half(r) /\ r % 2 = 0) \/ (r = 2 * Half(r) - 1 /\ r % 2 = 1)
  BY HalfFacts
<1>4. CASE Even(r)
  <2> DEFINE l == r + 2 * f
  <2>1. Even(l) /\ Half(l) >= Half(r) + f
    BY <1>3, <1>4 DEF Even, Half
  <2>2. Column(s, l) \in Nat /\ Column(s, l) - s >= Column(s + f, r) - (s + f) + f * KD
    BY <1>0, <2>1, Blocks, ColumnType
  <2>3. f * KD \in Nat /\ f * KD >= 2 * f
    BY Multiples
  <2>4. Column(s, l) >= N - 1
    BY <1>1, <1>2, <1>4, <2>2, <2>3
  <2>5. QED
    BY <1>0, <2>1, <2>4, EndsAt
<1>5. CASE ~Even(r)
  <2> DEFINE l == r + 2 * f - 1
             g == f - 1
  <2>0. g \in Nat
    OBVIOUS
  <2>1. Even(l) /\ Half(l) >= Half(r) + g
    BY <1>3, <1>5 DEF Even, Half
  <2>2. Column(s, l) \in Nat /\ Column(s, l) - s >= Column(s + f, r) - (s + f) + g * KD
    BY <1>0, <2>0, <2>1, Blocks, ColumnType
  <2>3. g * KD \in Nat /\ g * KD >= 2 * g
    BY <2>0, Multiples
  <2> HIDE DEF l
  <2>4. Column(s, l) >= N - 1
    BY <1>1, <1>2, <1>5, <2>0, <2>2, <2>3
  <2>5. l \in Nat /\ l > 0 /\ EndsSweep(TaskAt(s, l))
    BY <1>0, <2>1, <2>4, EndsAt DEF l
  <2>6. QED
    BY <2>5 DEF l
<1>6. QED
  BY <1>4, <1>5

(* The task k of sweep s comes before the place p of the loops.            *)
Moment(s, k) == k + shift * s
Passed(p, s, k) ==
  IF p = Finished THEN Moment(s, k) <= shift * N
  ELSE \/ Moment(s, k) < shift * p.i + p.m
       \/ Moment(s, k) = shift * p.i + p.m /\ s < p.sweep

Place(first) == [i : 1..(N - 1), m : 1..shift, sweep : first..(N - 1)]

LoopsInv ==
  /\ stt \in 1..N
  /\ next = Finished \/ (next \in Place(stt) /\ next.sweep <= next.i)

LEMMA NotFinished ==
  ASSUME NEW i, NEW m, NEW s, i # 0 PROVE [i |-> i, m |-> m, sweep |-> s] # Finished
<1>1. [i |-> i, m |-> m, sweep |-> s].i = i /\ Finished.i = 0
  BY DEF Finished
<1>2. QED
  BY <1>1

(* The place that follows is the next one among the sweeps that have not   *)
(* come to their end: no task of theirs lies between.                      *)
LEMMA FollowingIsNext ==
  ASSUME ProbOK, LoopsInv, next # Finished,
         NEW first \in Nat, first = stt \/ (first = stt + 1 /\ next.sweep = stt),
         NEW p, p = Following(next, first)
  PROVE  /\ first \in 1..N
         /\ p = Finished \/ (p \in Place(first) /\ p.sweep <= p.i)
         /\ \A s \in 1..(N - 1), k \in Nat \ {0} :
              /\ Passed(next, s, k) => Passed(p, s, k)
              /\ s = next.sweep /\ k = Myid(next) => Passed(p, s, k)
              /\ Passed(p, s, k) /\ s >= first =>
                   Passed(next, s, k) \/ (s = next.sweep /\ k = Myid(next))
<1>1. PICK i \in 1..(N - 1), m \in 1..3, w \in stt..(N - 1) :
        next = [i |-> i, m |-> m, sweep |-> w] /\ w <= i
  BY DEF LoopsInv, Place, shift
<1>2. stt \in Nat /\ stt > 0 /\ N \in Nat /\ first > 0 /\ first <= i + 1 /\ w + 1 >= first
      /\ i \in Nat /\ m \in Nat /\ w \in Nat
  BY <1>1 DEF ProbOK, LoopsInv
<1>3. first \in 1..N
  BY <1>1, <1>2
<1>4. next.i = i /\ next.m = m /\ next.sweep = w /\ Myid(next) = (i - w) * 3 + m
  BY <1>1 DEF Myid, shift
<1> DEFINE h(s, k) == k + 3 * s
<1>5. \A s, k : Passed(next, s, k) <=>
        h(s, k) < 3 * i + m \/ (h(s, k) = 3 * i + m /\ s < w)
  BY <1>4 DEF Passed, Moment, shift
<1>6. \A s \in Nat, k \in Nat : s = w /\ k = Myid(next) => h(s, k) = 3 * i + m
  BY <1>2, <1>4
<1>7. \A s \in Nat, k \in Nat : h(s, k) = 3 * i + m /\ s = w => k = Myid(next)
  BY <1>2, <1>4
<1>8. \A i2, m2, w2 : i2 # 0 =>
        LET q == [i |-> i2, m |-> m2, sweep |-> w2] IN
        \A s, k : Passed(q, s, k) <=> h(s, k) < 3 * i2 + m2 \/ (h(s, k) = 3 * i2 + m2 /\ s < w2)
  BY NotFinished DEF Passed, Moment, shift
<1>9. \A s, k : Passed(Finished, s, k) <=> h(s, k) <= 3 * N
  BY DEF Passed, Moment, shift
<1> DEFINE Links(s, k) ==
             /\ Passed(next, s, k) => Passed(p, s, k)
             /\ s = next.sweep /\ k = Myid(next) => Passed(p, s, k)
             /\ Passed(p, s, k) /\ s >= first =>
                  Passed(next, s, k) \/ (s = next.sweep /\ k = Myid(next))
           Goal ==
             /\ p = Finished \/ (p \in Place(first) /\ p.sweep <= p.i)
             /\ \A s \in 1..(N - 1), k \in Nat \ {0} : Links(s, k)
<1>10. ASSUME w < i PROVE Goal
  <2>1. p = [i |-> i, m |-> m, sweep |-> w + 1]
    BY <1>1, <1>10 DEF Following
  <2>2. p \in Place(first) /\ p.sweep <= p.i
    BY <1>1, <1>2, <1>10, <2>1 DEF Place, shift
  <2>3. \A s, k : Passed(p, s, k) <=> h(s, k) < 3 * i + m \/ (h(s, k) = 3 * i + m /\ s < w + 1)
    BY <1>2, <1>8, <2>1
  <2>4. ASSUME NEW s \in 1..(N - 1), NEW k \in Nat \ {0}
        PROVE  Links(s, k)
    <3>1. s \in Nat /\ k \in Nat /\ h(s, k) \in Nat
      BY <1>2
    <3> HIDE DEF h
    <3>2. QED
      BY <1>2, <1>4, <1>5, <1>6, <1>7, <2>3, <3>1
  <2>5. QED
    BY <2>2, <2>4
<1>11. ASSUME w = i, m < 3, first <= i PROVE Goal
  <2>1. p = [i |-> i, m |-> m + 1, sweep |-> first]
    BY <1>1, <1>2, <1>11 DEF Following, NextM, shift
  <2>2. p \in Place(first) /\ p.sweep <= p.i
    BY <1>1, <1>2, <1>11, <2>1 DEF Place, shift
  <2>3. \A s, k : Passed(p, s, k) <=> h(s, k) < 3 * i + (m + 1) \/ (h(s, k) = 3 * i + (m + 1) /\ s < first)
    BY <1>2, <1>8, <2>1
  <2>4. ASSUME NEW s \in 1..(N - 1), NEW k \in Nat \ {0}
        PROVE  Links(s, k)
    <3>1. s \in Nat /\ k \in Nat /\ h(s, k) \in Nat /\ 3 * i \in Nat
          /\ (h(s, k) <= 3 * i + m => s <= i)
      BY <1>1, <1>2
    <3> HIDE DEF h
    <3>2. QED
      BY <1>2, <1>4, <1>5, <1>6, <1>7, <1>11, <2>3, <3>1
  <2>5. QED
    BY <2>2, <2>4
<1>12. ASSUME w = i, m = 3 \/ first > i PROVE Goal
  <2>1. p = NextI(i + 1, first)
    BY <1>1, <1>2, <1>12 DEF Following, NextM, shift
  <2>2. CASE i + 1 > N - 1
    <3>1. p = Finished /\ i = N - 1
      BY <1>1, <1>2, <2>1, <2>2 DEF NextI
    <3>2. ASSUME NEW s \in 1..(N - 1), NEW k \in Nat \ {0}
          PROVE  Links(s, k)
      <4>1. s \in Nat /\ k \in Nat /\ h(s, k) \in Nat /\ 3 * N = 3 * i + 3
        BY <1>1, <1>2, <3>1
      <4> HIDE DEF h
      <4>2. QED
        BY <1>1, <1>2, <1>4, <1>5, <1>6, <1>7, <1>9, <1>12, <3>1, <4>1
    <3>3. QED
      BY <3>1, <3>2
  <2>3. CASE i + 1 <= N - 1
    <3>1. p = [i |-> i + 1, m |-> 1, sweep |-> first]
      BY <1>1, <1>2, <2>1, <2>3 DEF NextI
    <3>2. p \in Place(first) /\ p.sweep <= p.i
      BY <1>1, <1>2, <2>3, <3>1 DEF Place, shift
    <3>3. \A s, k : Passed(p, s, k) <=> h(s, k) < 3 * (i + 1) + 1 \/ (h(s, k) = 3 * (i + 1) + 1 /\ s < first)
      BY <1>2, <1>8, <3>1
    <3>4. ASSUME NEW s \in 1..(N - 1), NEW k \in Nat \ {0}
          PROVE  Links(s, k)
      <4>1. s \in Nat /\ k \in Nat /\ h(s, k) \in Nat /\ 3 * (i + 1) + 1 = 3 * i + 4
            /\ 3 * i \in Nat /\ (h(s, k) <= 3 * i + 3 => s <= i)
        BY <1>1, <1>2
      <4> HIDE DEF h
      <4>2. QED
        BY <1>1, <1>2, <1>4, <1>5, <1>6, <1>7, <1>12, <3>3, <4>1
    <3>5. QED
      BY <3>2, <3>4
  <2>4. QED
    BY <1>2, <2>2, <2>3
<1>13. QED
  BY <1>1, <1>2, <1>3, <1>10, <1>11, <1>12

-----------------------------------------------------------------------------
(* What has been generated.                                                *)

Task == {TaskAt(s, k) : s \in 1..(N - 1), k \in Nat \ {0}}

Generated == 1..Len(tasks)
Has(s, k) == \E q \in Generated : tasks[q] = TaskAt(s, k)

Precedes(x, y) ==
  \/ Moment(x.sweep, x.myid) < Moment(y.sweep, y.myid)
  \/ Moment(x.sweep, x.myid) = Moment(y.sweep, y.myid) /\ x.sweep < y.sweep

(* The tasks lie in front of the place of the loops, in their order.       *)
OrderInv ==
  /\ \A q \in Generated : Passed(next, tasks[q].sweep, tasks[q].myid)
  /\ \A p, q \in Generated : p < q => Precedes(tasks[p], tasks[q])

(* None is missing of a sweep that has not come to its end, nor in front   *)
(* of any task of another one.                                             *)
CompleteInv ==
  /\ \A s \in stt..(N - 1), k \in Nat \ {0} : Passed(next, s, k) => Has(s, k)
  /\ \A q \in Generated : \A k \in 1..(tasks[q].myid - 1) : Has(tasks[q].sweep, k)

(* The sweeps come to their end one after the other, each once.            *)
EndInv ==
  /\ \A s \in 1..(stt - 1) : \E q \in Generated : tasks[q].sweep = s /\ EndsSweep(tasks[q])
  /\ \A q \in Generated : EndsSweep(tasks[q]) =>
       /\ tasks[q].sweep < stt
       /\ \A p \in Generated : tasks[p].sweep = tasks[q].sweep => tasks[p].myid <= tasks[q].myid

GenInv ==
  /\ prob \in Problem /\ tasks \in Seq(Task)
  /\ LoopsInv /\ OrderInv /\ CompleteInv /\ EndInv

LEMMA GenInit == Init => GenInv
<1> SUFFICES ASSUME Init PROVE GenInv
  OBVIOUS
<1>1. prob \in Problem /\ tasks = <<>> /\ stt = 1 /\ next = NextI(1, 1) /\ Generated = {}
  BY DEF Init, Generated
<1>2. N \in Nat /\ N > 0
  BY <1>1, ProblemOK DEF ProbOK
<1>3. CASE N = 1
  <2>1. next = Finished
    BY <1>1, <1>3 DEF NextI
  <2>2. LoopsInv /\ OrderInv /\ CompleteInv /\ EndInv
    BY <1>1, <1>3, <2>1 DEF LoopsInv, OrderInv, CompleteInv, EndInv
  <2>3. QED
    BY <1>1, <2>2 DEF GenInv
<1>4. CASE N > 1
  <2>1. next = [i |-> 1, m |-> 1, sweep |-> 1]
    BY <1>1, <1>2, <1>4 DEF NextI
  <2>2. next # Finished /\ next.i = 1 /\ next.m = 1 /\ next.sweep = 1
    BY <2>1, NotFinished
  <2>3. LoopsInv
    BY <1>1, <1>2, <1>4, <2>1 DEF LoopsInv, Place, shift
  <2>4. ASSUME NEW s \in 1..(N - 1), NEW k \in Nat \ {0} PROVE ~Passed(next, s, k)
    BY <1>2, <2>2 DEF Passed, Moment, shift
  <2>5. OrderInv /\ CompleteInv /\ EndInv
    BY <1>1, <2>4 DEF OrderInv, CompleteInv, EndInv
  <2>6. QED
    BY <1>1, <2>3, <2>5 DEF GenInv
<1>5. QED
  BY <1>2, <1>3, <1>4

LEMMA TaskType1 ==
  ASSUME GenInv, NEW q \in Generated
  PROVE  /\ tasks[q].sweep \in 1..(N - 1) /\ tasks[q].myid \in Nat /\ tasks[q].myid > 0
         /\ tasks[q] = TaskAt(tasks[q].sweep, tasks[q].myid)
<1>1. tasks[q] \in Task
  BY DEF GenInv, Generated
<1>2. PICK s \in 1..(N - 1), k \in Nat \ {0} : tasks[q] = TaskAt(s, k)
  BY <1>1 DEF Task
<1>3. tasks[q].sweep = s /\ tasks[q].myid = k
  BY <1>2, TaskFields
<1>4. QED
  BY <1>2, <1>3

(* The task at the present place is new, and the one before it in its      *)
(* sweep has been generated.                                               *)
LEMMA NextTask ==
  ASSUME GenInv, next # Finished
  PROVE  /\ ProbOK /\ next.sweep \in stt..(N - 1) /\ next.sweep \in 1..(N - 1)
         /\ Myid(next) \in Nat /\ Myid(next) > 0
         /\ Kernel(next) = TaskAt(next.sweep, Myid(next))
         /\ Moment(next.sweep, Myid(next)) = shift * next.i + next.m
         /\ \A s \in stt..(N - 1), k \in Nat \ {0} :
              \/ Moment(s, k) < Moment(next.sweep, Myid(next))
              \/ Moment(s, k) = Moment(next.sweep, Myid(next)) /\ s < next.sweep
              => Has(s, k)
<1>1. ProbOK /\ N \in Nat
  BY ProblemOK DEF GenInv, ProbOK
<1>2. next \in Place(stt) /\ next.sweep <= next.i /\ stt \in 1..N
  BY DEF GenInv, LoopsInv
<1>3. next.i \in 1..(N - 1) /\ next.m \in 1..3 /\ next.sweep \in stt..(N - 1)
  BY <1>2 DEF Place, shift
<1>4. next.sweep \in 1..(N - 1) /\ next.sweep \in Nat
  BY <1>1, <1>2, <1>3
<1>5. next \in [i : Nat, m : 1..shift, sweep : Nat]
  BY <1>1, <1>2, <1>3, <1>4 DEF Place
<1>6. Myid(next) \in Nat /\ Myid(next) > 0 /\ Kernel(next) = TaskAt(next.sweep, Myid(next))
  BY <1>1, <1>2, <1>5, KernelIs
<1>7. Moment(next.sweep, Myid(next)) = shift * next.i + next.m
  BY <1>1, <1>3, <1>4 DEF Moment, Myid, shift
<1>8. ASSUME NEW s \in stt..(N - 1), NEW k \in Nat \ {0},
             \/ Moment(s, k) < Moment(next.sweep, Myid(next))
             \/ Moment(s, k) = Moment(next.sweep, Myid(next)) /\ s < next.sweep
      PROVE  Has(s, k)
  <2>1. Passed(next, s, k)
    BY <1>7, <1>8 DEF Passed
  <2>2. QED
    BY <2>1 DEF GenInv, CompleteInv
<1>9. QED
  BY <1>1, <1>3, <1>4, <1>6, <1>7, <1>8

(* A sweep comes to its end only when all those before it have.            *)
LEMMA EndsInOrder ==
  ASSUME GenInv, next # Finished, EndsSweep(Kernel(next))
  PROVE  next.sweep = stt
<1> DEFINE s == next.sweep
           k == Myid(next)
<1>1. /\ ProbOK /\ s \in stt..(N - 1) /\ s \in 1..(N - 1) /\ k \in Nat /\ k > 0
      /\ Kernel(next) = TaskAt(s, k) /\ stt \in 1..N /\ N \in Nat
  BY NextTask DEF GenInv, LoopsInv, ProbOK
<1>2. SUFFICES ASSUME s > stt PROVE FALSE
  BY <1>1
<1>3. PICK t \in Nat : s = t + 1
  <2>1. s - 1 \in Nat /\ s = (s - 1) + 1
    BY <1>1, <1>2
  <2>2. QED
    BY <2>1
<1> HIDE DEF s, k
<1>4. PICK l \in Nat : l > 0 /\ l <= k + 2 /\ EndsSweep(TaskAt(t, l))
  <2>1. EndsSweep(TaskAt(t + 1, k))
    BY <1>1, <1>3
  <2>2. EndsSweep(TaskAt(t, k + 2 * 1)) \/ EndsSweep(TaskAt(t, k + 2 * 1 - 1))
    BY <1>1, <2>1, EndsBehind
  <2>3. CASE EndsSweep(TaskAt(t, k + 2 * 1))
    <3>1. k + 2 * 1 \in Nat /\ k + 2 * 1 > 0 /\ k + 2 * 1 <= k + 2
      BY <1>1
    <3>2. QED
      BY <2>3, <3>1
  <2>4. CASE EndsSweep(TaskAt(t, k + 2 * 1 - 1))
    <3>1. k + 2 * 1 - 1 \in Nat /\ k + 2 * 1 - 1 > 0 /\ k + 2 * 1 - 1 <= k + 2
      BY <1>1
    <3>2. QED
      BY <2>4, <3>1
  <2>5. QED
    BY <2>2, <2>3, <2>4
<1>5. t \in stt..(N - 1) /\ l \in Nat \ {0} /\ Moment(t, l) < Moment(s, k)
  BY <1>1, <1>2, <1>3, <1>4 DEF Moment, shift
<1>6. Has(t, l)
  BY <1>5, NextTask DEF s, k
<1>7. PICK q \in Generated : tasks[q] = TaskAt(t, l)
  BY <1>6 DEF Has
<1>8. tasks[q].sweep = t /\ EndsSweep(tasks[q])
  BY <1>4, <1>7, TaskFields
<1>9. t < stt
  BY <1>8 DEF GenInv, EndInv
<1>10. QED
  BY <1>1, <1>5, <1>9

(* Generate adds one task behind all others, and the loops move on.        *)
LEMMA GenerateFacts ==
  ASSUME GenInv, Generate
  PROVE  /\ Task' = Task /\ N' = N /\ KD' = KD
         /\ Len(tasks') = Len(tasks) + 1 /\ tasks' \in Seq(Task)
         /\ tasks'[Len(tasks) + 1] = Kernel(next)
         /\ \A q \in Generated : tasks'[q] = tasks[q]
         /\ Len(tasks) \in Nat
<1>1. prob' = prob /\ tasks' = Append(tasks, Kernel(next)) /\ next # Finished
  BY DEF Generate
<1>2. N' = N /\ KD' = KD
  BY <1>1 DEF N, KD
<1>3. Task' = Task
  BY <1>2 DEF Task, TaskAt, Column
<1>4. Kernel(next) \in Task
  BY <1>1, NextTask DEF Task
<1>5. tasks \in Seq(Task)
  BY DEF GenInv
<1> HIDE DEF Generated
<1>6. QED
  BY <1>1, <1>2, <1>3, <1>4, <1>5 DEF Generated

LEMMA GenerateLoops ==
  ASSUME GenInv, Generate
  PROVE  LET first == IF EndsSweep(Kernel(next)) THEN stt + 1 ELSE stt IN
         /\ stt' = first /\ next' = Following(next, first) /\ first \in Nat
         /\ (first = stt \/ (first = stt + 1 /\ next.sweep = stt))
         /\ next # Finished
BY EndsInOrder DEF Generate, GenInv, LoopsInv

(* Every operator below reads the matrix only through N and KD.            *)
LEMMA SameMatrix ==
  ASSUME N' = N, KD' = KD
  PROVE  /\ \A s, k : TaskAt(s, k)' = TaskAt(s, k)
         /\ \A x : EndsSweep(x)' <=> EndsSweep(x)
         /\ \A first : Place(first)' = Place(first)
         /\ \A p, s, k : Passed(p, s, k)' <=> Passed(p, s, k)
BY DEF TaskAt, Column, EndsSweep, Place, Passed

LEMMA GenerateKeeps == ASSUME GenInv, Generate PROVE GenInv'
<1> DEFINE n == Len(tasks) + 1
           s == next.sweep
           k == Myid(next)
           HasNow(t, l) == \E q \in Generated' : tasks'[q] = TaskAt(t, l)
<1>1. /\ Task' = Task /\ N' = N /\ KD' = KD /\ Len(tasks') = n /\ tasks' \in Seq(Task)
      /\ tasks'[n] = Kernel(next) /\ \A q \in Generated : tasks'[q] = tasks[q]
      /\ Len(tasks) \in Nat
  BY GenerateFacts
<1>2. /\ ProbOK /\ s \in stt..(N - 1) /\ s \in 1..(N - 1) /\ k \in Nat /\ k > 0
      /\ Kernel(next) = TaskAt(s, k) /\ next # Finished /\ LoopsInv
      /\ \A t \in stt..(N - 1), l \in Nat \ {0} :
           \/ Moment(t, l) < Moment(s, k)
           \/ Moment(t, l) = Moment(s, k) /\ t < s
           => Has(t, l)
      /\ Moment(s, k) = shift * next.i + next.m
  BY NextTask DEF GenInv, Generate
<1>3. PICK first \in Nat :
        /\ first = (IF EndsSweep(Kernel(next)) THEN stt + 1 ELSE stt)
        /\ stt' = first /\ next' = Following(next, first)
        /\ (first = stt \/ (first = stt + 1 /\ s = stt))
  BY GenerateLoops
<1>4. /\ first \in 1..N
      /\ next' = Finished \/ (next' \in Place(first) /\ next'.sweep <= next'.i)
      /\ \A t \in 1..(N - 1), l \in Nat \ {0} :
           /\ Passed(next, t, l) => Passed(next', t, l)
           /\ t = s /\ l = k => Passed(next', t, l)
           /\ Passed(next', t, l) /\ t >= first => Passed(next, t, l) \/ (t = s /\ l = k)
  BY <1>2, <1>3, FollowingIsNext
<1>5. /\ \A t, l : TaskAt(t, l)' = TaskAt(t, l)
      /\ \A x : EndsSweep(x)' <=> EndsSweep(x)
      /\ \A f : Place(f)' = Place(f)
      /\ \A p, t, l : Passed(p, t, l)' <=> Passed(p, t, l)
  BY <1>1, SameMatrix
<1>6. Generated' = Generated \cup {n} /\ n \notin Generated
      /\ \A q \in Generated : q \in Nat /\ q < n
  BY <1>1 DEF Generated
<1>7. /\ tasks'[n].sweep = s /\ tasks'[n].myid = k /\ tasks'[n] = TaskAt(s, k)
  BY <1>1, <1>2, TaskFields
<1> HIDE DEF n, s, k
<1>8. LoopsInv'
  BY <1>1, <1>3, <1>4, <1>5 DEF LoopsInv, Finished
<1>9. ASSUME NEW q \in Generated
      PROVE  /\ tasks[q].sweep \in 1..(N - 1) /\ tasks[q].myid \in Nat \ {0}
             /\ tasks[q] = TaskAt(tasks[q].sweep, tasks[q].myid)
             /\ Passed(next, tasks[q].sweep, tasks[q].myid) /\ tasks'[q] = tasks[q]
  BY <1>1, TaskType1 DEF GenInv, OrderInv
<1>10. OrderInv'
  <2>1. ASSUME NEW q \in Generated' PROVE Passed(next, tasks[q].sweep, tasks[q].myid)'
    <3>1. CASE q \in Generated
      <4>1. Passed(next', tasks[q].sweep, tasks[q].myid)
        BY <1>4, <1>9, <3>1
      <4>2. QED
        BY <1>5, <1>9, <3>1, <4>1
    <3>2. CASE q = n
      BY <1>2, <1>4, <1>5, <1>7, <3>2
    <3>3. QED
      BY <1>6, <2>1, <3>1, <3>2
  <2>2. ASSUME NEW p \in Generated', NEW q \in Generated', p < q
        PROVE  Precedes(tasks'[p], tasks'[q])
    <3>1. CASE q \in Generated
      <4>1. p \in Generated
        BY <1>1, <1>6, <2>2, <3>1
      <4>2. QED
        BY <1>1, <2>2, <3>1, <4>1 DEF GenInv, OrderInv
    <3>2. CASE q = n
      <4>1. p \in Generated
        BY <1>1, <1>6, <2>2, <3>2
      <4>2. Passed(next, tasks[p].sweep, tasks[p].myid)
        BY <1>9, <4>1
      <4>3. Precedes(tasks[p], tasks'[n])
        BY <1>2, <1>7, <4>2 DEF Passed, Precedes, s
      <4>4. QED
        BY <1>1, <3>2, <4>1, <4>3
    <3>3. QED
      BY <1>6, <2>2, <3>1, <3>2
  <2>3. \A x, y : Precedes(x, y)' <=> Precedes(x, y)
    BY DEF Precedes, Moment, shift
  <2>4. QED
    BY <2>1, <2>2 DEF OrderInv, Precedes, Moment
<1>11. ASSUME NEW t, NEW l, Has(t, l) PROVE HasNow(t, l)
  BY <1>1, <1>6, <1>11 DEF Has
<1>12. HasNow(s, k)
  BY <1>6, <1>7
<1>13. CompleteInv'
  <2>1. ASSUME NEW t \in first..(N - 1), NEW l \in Nat \ {0}, Passed(next', t, l)
        PROVE  HasNow(t, l)
    <3>1. t \in stt..(N - 1) /\ t \in 1..(N - 1) /\ t >= first
      BY <1>2, <1>3, <1>4, <2>1 DEF LoopsInv, ProbOK
    <3>2. Passed(next, t, l) \/ (t = s /\ l = k)
      BY <1>4, <2>1, <3>1
    <3>3. CASE Passed(next, t, l)
      BY <1>11, <3>1, <3>3 DEF GenInv, CompleteInv
    <3>4. CASE t = s /\ l = k
      BY <1>12, <3>4
    <3>5. QED
      BY <3>2, <3>3, <3>4
  <2>2. ASSUME NEW q \in Generated', NEW l \in 1..(tasks'[q].myid - 1)
        PROVE  HasNow(tasks'[q].sweep, l)
    <3>1. CASE q \in Generated
      BY <1>9, <1>11, <3>1 DEF GenInv, CompleteInv
    <3>2. CASE q = n
      <4>1. l \in 1..(k - 1)
        BY <1>7, <2>2, <3>2
      <4>2. l \in Nat \ {0} /\ k - 1 \in Nat
        BY <1>2, <4>1
      <4>3. k - 1 \in Nat \ {0} /\ Moment(s, k - 1) < Moment(s, k)
        BY <1>2, <4>1, <4>2 DEF Moment, shift
      <4>4. Has(s, k - 1)
        BY <1>2, <4>3
      <4>5. PICK r \in Generated : tasks[r] = TaskAt(s, k - 1)
        BY <4>4 DEF Has
      <4>6. tasks[r].sweep = s /\ tasks[r].myid = k - 1
        BY <4>5, TaskFields
      <4>7. l = k - 1 \/ l \in 1..(tasks[r].myid - 1)
        BY <1>2, <4>1, <4>6
      <4>8. Has(s, l)
        BY <4>4, <4>6, <4>7 DEF GenInv, CompleteInv
      <4>9. QED
        BY <1>7, <1>11, <3>2, <4>8
    <3>3. QED
      BY <1>6, <3>1, <3>2
  <2>3. QED
    BY <1>1, <1>3, <1>5, <2>1, <2>2 DEF CompleteInv, Has
<1>14. EndInv'
  <2>1. ASSUME NEW t \in 1..(first - 1)
        PROVE  \E q \in Generated' : tasks'[q].sweep = t /\ EndsSweep(tasks'[q])
    <3>1. CASE t \in 1..(stt - 1)
      <4>1. PICK q \in Generated : tasks[q].sweep = t /\ EndsSweep(tasks[q])
        BY <3>1 DEF GenInv, EndInv
      <4>2. QED
        BY <1>1, <1>6, <4>1
    <3>2. CASE t \notin 1..(stt - 1)
      <4>1. first = stt + 1 /\ t = stt /\ EndsSweep(Kernel(next)) /\ s = stt
        BY <1>2, <1>3, <2>1, <3>2 DEF LoopsInv
      <4>2. QED
        BY <1>1, <1>6, <1>7, <4>1
    <3>3. QED
      BY <3>1, <3>2
  <2>2. ASSUME NEW q \in Generated', EndsSweep(tasks'[q])
        PROVE  /\ tasks'[q].sweep < first
               /\ \A p \in Generated' : tasks'[p].sweep = tasks'[q].sweep =>
                    tasks'[p].myid <= tasks'[q].myid
    <3>1. CASE q \in Generated
      <4>1. /\ tasks[q].sweep < stt /\ tasks[q].sweep \in 1..(N - 1)
            /\ \A p \in Generated : tasks[p].sweep = tasks[q].sweep => tasks[p].myid <= tasks[q].myid
        BY <1>9, <2>2, <3>1 DEF GenInv, EndInv
      <4>2. tasks[q].sweep < first /\ s # tasks[q].sweep
        BY <1>2, <1>3, <4>1 DEF LoopsInv
      <4>3. QED
        BY <1>6, <1>7, <1>9, <3>1, <4>1, <4>2
    <3>2. CASE q = n
      <4>1. EndsSweep(Kernel(next)) /\ first = stt + 1 /\ s = stt /\ stt \in Nat
        BY <1>1, <1>2, <1>3, <2>2, <3>2 DEF LoopsInv, s
      <4>2. ASSUME NEW p \in Generated, tasks[p].sweep = s
            PROVE  tasks[p].myid <= k
        <5>1. Precedes(tasks'[p], tasks'[n])
          <6>1. p \in Generated' /\ n \in Generated' /\ p < n
            BY <1>6
          <6>2. QED
            BY <1>10, <6>1 DEF OrderInv, Precedes, Moment
        <5>2. QED
          BY <1>2, <1>7, <1>9, <4>2, <5>1 DEF Precedes, Moment, shift
      <4>3. QED
        BY <1>2, <1>6, <1>7, <1>9, <3>2, <4>1, <4>2
    <3>3. QED
      BY <1>6, <3>1, <3>2
  <2>3. QED
    BY <1>3, <1>5, <2>1, <2>2 DEF EndInv
<1>15. QED
  BY <1>1, <1>8, <1>10, <1>13, <1>14 DEF GenInv, Generate

LEMMA OthersKeepGen ==
  ASSUME GenInv, UNCHANGED <<prob, next, stt, tasks>>
  PROVE  GenInv'
<1>1. N' = N /\ KD' = KD
  BY DEF N, KD
<1>2. /\ \A s, k : TaskAt(s, k)' = TaskAt(s, k)
      /\ \A x : EndsSweep(x)' <=> EndsSweep(x)
      /\ \A first : Place(first)' = Place(first)
      /\ \A p, s, k : Passed(p, s, k)' <=> Passed(p, s, k)
  BY <1>1, SameMatrix
<1>3. Task' = Task /\ Generated' = Generated
  BY <1>1, <1>2 DEF Task, Generated
<1>4. LoopsInv'
  BY <1>1, <1>2 DEF GenInv, LoopsInv, Finished
<1>5. OrderInv'
  BY <1>2, <1>3 DEF GenInv, OrderInv, Precedes, Moment
<1>6. CompleteInv'
  BY <1>1, <1>2, <1>3 DEF GenInv, CompleteInv, Has
<1>7. EndInv'
  BY <1>2, <1>3 DEF GenInv, EndInv
<1>8. QED
  BY <1>3, <1>4, <1>5, <1>6, <1>7 DEF GenInv

-----------------------------------------------------------------------------
(* The execution.                                                          *)

(* Two tasks depend on each other if their numbers are close.              *)
LEMMA DependentIs ==
  ASSUME NEW x, NEW y, x.myid \in Nat, y.myid \in Nat, x.myid > 0, y.myid > 0,
         x.myid <= y.myid + 2, y.myid <= x.myid + 2,
         x.ttype = 1 <=> x.myid = 1, y.ttype = 1 <=> y.myid = 1
  PROVE  Dependent(x, y)
<1> DEFINE k == x.myid
           l == y.myid
<1>1. k \in Nat /\ l \in Nat /\ k > 0 /\ l > 0
  OBVIOUS
<1>2. DependsOut(x) = {k} /\ DependsOut(y) = {l}
  BY DEF DependsOut
<1>3. /\ k + 2 \in DependsIn(x) /\ (k # 1 => k - 1 \in DependsIn(x))
      /\ l + 2 \in DependsIn(y) /\ (l # 1 => l - 1 \in DependsIn(y))
  <2>1. k + shift - 1 = k + 2 /\ l + shift - 1 = l + 2
    BY <1>1 DEF shift
  <2>2. QED
    BY <2>1 DEF DependsIn
<1> HIDE DEF k, l
<1>4. k = l \/ k = l + 2 \/ l = k + 2 \/ (k = l - 1 /\ l # 1) \/ (l = k - 1 /\ k # 1)
  BY <1>1 DEF k, l
<1>5. QED
  BY <1>2, <1>3, <1>4 DEF Dependent

Begun(q) == q \in done \/ \E t \in Thread : on[t] = q

(* The task p is at most two numbers per sweep ahead of q.                 *)
Trails(p, q) ==
  /\ p # q /\ tasks[p].sweep <= tasks[q].sweep
  /\ tasks[p].myid <= tasks[q].myid + 2 * (tasks[q].sweep - tasks[p].sweep)

(* A task has been taken up only behind all those.                         *)
RunInv ==
  /\ done \subseteq Generated /\ on \in [Thread -> 0..Len(tasks)]
  /\ \A t \in Thread : on[t] # 0 =>
       on[t] \notin done /\ \A u \in Thread : on[u] = on[t] => u = t
  /\ \A q \in Generated : Begun(q) => \A p \in Generated : Trails(p, q) => p \in done

LEMMA TrailsPrecedes ==
  ASSUME GenInv, NEW p \in Generated, NEW q \in Generated, Trails(p, q)
  PROVE  p < q
<1>1. /\ tasks[p].sweep \in Nat /\ tasks[p].myid \in Nat
      /\ tasks[q].sweep \in Nat /\ tasks[q].myid \in Nat
  BY ProblemOK, TaskType1 DEF GenInv, ProbOK
<1>2. Moment(tasks[p].sweep, tasks[p].myid) <= Moment(tasks[q].sweep, tasks[q].myid)
      /\ tasks[p].sweep <= tasks[q].sweep /\ p # q
  BY <1>1 DEF Trails, Moment, shift
<1>3. ~Precedes(tasks[q], tasks[p])
  BY <1>1, <1>2 DEF Precedes, Moment, shift
<1>4. p \in Int /\ q \in Int
  BY DEF Generated
<1>5. QED
  BY <1>2, <1>3, <1>4 DEF GenInv, OrderInv

LEMMA DirectlyDone ==
  ASSUME GenInv, NEW p \in Generated, NEW q \in Generated, Startable(q), Trails(p, q),
         tasks[p].myid <= tasks[q].myid + 2, tasks[q].myid <= tasks[p].myid + 2
  PROVE  p \in done
<1>1. p \in 1..(q - 1)
  BY TrailsPrecedes DEF Generated
<1>2. /\ tasks[p].myid \in Nat /\ tasks[p].myid > 0 /\ tasks[q].myid \in Nat /\ tasks[q].myid > 0
      /\ tasks[p] = TaskAt(tasks[p].sweep, tasks[p].myid)
      /\ tasks[q] = TaskAt(tasks[q].sweep, tasks[q].myid)
  BY TaskType1
<1>3. \A k \in Nat : (IF k = 1 THEN 1 ELSE (k % 2) + 2) = 1 <=> k = 1
  OBVIOUS
<1>4. (tasks[p].ttype = 1 <=> tasks[p].myid = 1) /\ (tasks[q].ttype = 1 <=> tasks[q].myid = 1)
  BY <1>2, <1>3, TaskFields
<1>5. Dependent(tasks[p], tasks[q])
  BY <1>2, <1>4, DependentIs
<1>6. QED
  BY <1>1, <1>5 DEF Startable

(* Where sweeps have come to their end: the task p of an earlier sweep is  *)
(* ahead of the last task r of a later one by two numbers per sweep at     *)
(* most.                                                                   *)
LEMMA EndedTrails ==
  ASSUME GenInv, NEW p \in Generated, NEW r \in Generated, tasks[p].sweep < tasks[r].sweep,
         EndsSweep(tasks[r])
  PROVE  tasks[p].myid <= tasks[r].myid + 2 * (tasks[r].sweep - tasks[p].sweep)
<1> DEFINE s == tasks[p].sweep
           l == tasks[p].myid
           m == tasks[r].myid
           f == tasks[r].sweep - s
<1>1. ProbOK /\ N \in Nat
  BY ProblemOK DEF GenInv, ProbOK
<1>2. /\ s \in Nat /\ l \in Nat /\ m \in Nat /\ m > 0 /\ f \in Nat /\ f > 0
      /\ tasks[r] = TaskAt(s + f, m) /\ tasks[r].sweep = s + f
  <2>1. /\ s \in 1..(N - 1) /\ l \in Nat /\ m \in Nat /\ m > 0
        /\ tasks[r].sweep \in 1..(N - 1) /\ tasks[r] = TaskAt(tasks[r].sweep, m)
    BY TaskType1
  <2>2. s \in Nat /\ f \in Nat /\ f > 0 /\ s + f = tasks[r].sweep
    BY <1>1, <2>1
  <2>3. QED
    BY <2>1, <2>2
<1> HIDE DEF s, l, m, f
<1>3. SUFFICES ASSUME l > m + 2 * f PROVE FALSE
  BY <1>2 DEF s, l, m, f
<1>4. \/ EndsSweep(TaskAt(s, m + 2 * f))
      \/ EndsSweep(TaskAt(s, m + 2 * f - 1))
  BY <1>1, <1>2, EndsBehind
<1>5. m + 2 * f \in 1..(l - 1) /\ m + 2 * f - 1 \in 1..(l - 1)
  BY <1>2, <1>3
<1>6. PICK k \in 1..(l - 1) : EndsSweep(TaskAt(s, k))
  BY <1>4, <1>5
<1>7. Has(s, k)
  BY <1>6 DEF GenInv, CompleteInv, s, l
<1>8. PICK q \in Generated : tasks[q] = TaskAt(s, k)
  BY <1>7 DEF Has
<1>9. tasks[q].sweep = s /\ tasks[q].myid = k /\ EndsSweep(tasks[q])
  BY <1>6, <1>8, TaskFields
<1>10. l <= k
  BY <1>9 DEF GenInv, EndInv, s, l
<1>11. QED
  BY <1>2, <1>6, <1>10

(* What OpenMP waits for before it starts a task is enough.                *)
LEMMA TrailsDone ==
  ASSUME GenInv, RunInv, NEW q \in Generated, Startable(q), NEW p \in Generated, Trails(p, q)
  PROVE  p \in done
<1> DEFINE s == tasks[p].sweep
           l == tasks[p].myid
           t == tasks[q].sweep
           k == tasks[q].myid
<1>1. /\ s \in Nat /\ s > 0 /\ l \in Nat /\ l > 0 /\ t \in Nat /\ t <= N - 1 /\ k \in Nat /\ k > 0
      /\ N \in Nat /\ stt \in 1..N
  <2>1. N \in Nat /\ stt \in 1..N
    BY ProblemOK DEF GenInv, ProbOK, LoopsInv
  <2>2. s \in 1..(N - 1) /\ l \in Nat /\ l > 0
    BY TaskType1
  <2>3. t \in 1..(N - 1) /\ k \in Nat /\ k > 0
    BY TaskType1
  <2> HIDE DEF s, l, t, k
  <2>4. QED
    BY <2>1, <2>2, <2>3
<1>2. p # q /\ s <= t /\ l <= k + 2 * (t - s)
  BY DEF Trails
<1>3. ASSUME NEW r \in Generated, r \in done, Trails(p, r) PROVE p \in done
  BY <1>3 DEF RunInv, Begun
<1>4. ASSUME k > 1 PROVE \E r \in Generated : tasks[r].sweep = t /\ tasks[r].myid = k - 1 /\ r \in done
  <2>1. Has(t, k - 1)
    BY <1>1, <1>4 DEF GenInv, CompleteInv
  <2>2. PICK r \in Generated : tasks[r] = TaskAt(t, k - 1)
    BY <2>1 DEF Has
  <2>3. tasks[r].sweep = t /\ tasks[r].myid = k - 1
    BY <2>2, TaskFields
  <2>4. r # q
    BY <1>1, <2>3
  <2>5. Trails(r, q)
    BY <1>1, <2>3, <2>4 DEF Trails
  <2>6. r \in done
    BY <1>1, <2>3, <2>5, DirectlyDone
  <2>7. QED
    BY <2>3, <2>6
<1>5. CASE l <= k + 2 /\ k <= l + 2
  BY <1>5, DirectlyDone
<1>6. CASE k > l + 2
  <2>1. PICK r \in Generated : tasks[r].sweep = t /\ tasks[r].myid = k - 1 /\ r \in done
    BY <1>1, <1>4, <1>6
  <2>2. Trails(p, r)
    BY <1>1, <1>2, <1>6, <2>1 DEF Trails
  <2>3. QED
    BY <1>3, <2>1, <2>2
<1>7. CASE l > k + 2
  <2> DEFINE u == t - 1
  <2>1. u \in Nat /\ u > s /\ u < t /\ u <= N - 1
    BY <1>1, <1>2, <1>7
  <2>2. CASE Has(u, k + 2)
    <3>1. PICK r \in Generated : tasks[r] = TaskAt(u, k + 2)
      BY <2>2 DEF Has
    <3>2. tasks[r].sweep = u /\ tasks[r].myid = k + 2
      BY <3>1, TaskFields
    <3>3. Trails(r, q) /\ Trails(p, r)
      BY <1>1, <1>2, <2>1, <3>2 DEF Trails
    <3>4. r \in done
      BY <1>1, <3>2, <3>3, DirectlyDone
    <3>5. QED
      BY <1>3, <3>3, <3>4
  <2>3. CASE ~Has(u, k + 2)
    <3>1. u < stt
      <4>1. SUFFICES ASSUME u >= stt PROVE FALSE
        BY <1>1, <2>1
      <4>2. Passed(next, t, k)
        BY DEF GenInv, OrderInv
      <4>3. Moment(u, k + 2) < Moment(t, k) /\ Moment(u, k + 2) \in Int /\ Moment(t, k) \in Int
        BY <1>1, <2>1 DEF Moment, shift
      <4>4. next = Finished \/ shift * next.i + next.m \in Int
        BY <1>1 DEF GenInv, LoopsInv, Place, shift
      <4> HIDE DEF u, t, k
      <4>5. shift * N \in Int
        BY <1>1 DEF shift
      <4>6. Passed(next, u, k + 2)
        BY <4>2, <4>3, <4>4, <4>5 DEF Passed
      <4>7. u \in stt..(N - 1) /\ k + 2 \in Nat \ {0}
        BY <1>1, <2>1, <4>1
      <4>8. QED
        BY <2>3, <4>6, <4>7 DEF GenInv, CompleteInv
    <3>2. PICK r \in Generated : tasks[r].sweep = u /\ EndsSweep(tasks[r])
      <4>1. u \in 1..(stt - 1)
        BY <1>1, <2>1, <3>1
      <4>2. QED
        BY <4>1 DEF GenInv, EndInv
    <3> DEFINE m == tasks[r].myid
    <3>3. m \in Nat /\ m > 0 /\ tasks[r] = TaskAt(u, m)
      BY <3>2, TaskType1
    <3>4. m <= k + 1
      <4>1. m # k + 2
        BY <2>3, <3>3 DEF Has
      <4>2. ~(k + 2 \in 1..(m - 1))
        BY <2>3, <3>2 DEF GenInv, CompleteInv
      <4>3. QED
        BY <1>1, <3>3, <4>1, <4>2
    <3>5. l <= m + 2 * (u - s)
      BY <2>1, <3>2, EndedTrails
    <3>6. CASE k > 1
      <4>1. PICK n \in Generated : tasks[n].sweep = t /\ tasks[n].myid = k - 1 /\ n \in done
        BY <1>4, <3>6
      <4>2. Trails(p, n)
        BY <1>1, <2>1, <3>3, <3>4, <3>5, <4>1 DEF Trails
      <4>3. QED
        BY <1>3, <4>1, <4>2
    <3>7. CASE k = 1
      <4>1. Trails(r, q) /\ Trails(p, r)
        BY <1>1, <2>1, <3>2, <3>3, <3>4, <3>5, <3>7 DEF Trails
      <4>2. r \in done
        BY <1>1, <3>3, <3>4, <3>7, <4>1, DirectlyDone
      <4>3. QED
        BY <1>3, <4>1, <4>2
    <3>8. QED
      BY <1>1, <3>6, <3>7
  <2>4. QED
    BY <2>2, <2>3
<1>8. QED
  BY <1>1, <1>5, <1>6, <1>7

(* The earlier of two tasks in conflict is one of those.                   *)
LEMMA ConflictTrails ==
  ASSUME GenInv, NEW p \in Generated, NEW q \in Generated, p < q,
         Conflict(tasks[p], tasks[q]) \/ Conflict(tasks[q], tasks[p])
  PROVE  Trails(p, q)
<1> DEFINE s == tasks[p].sweep
           l == tasks[p].myid
           t == tasks[q].sweep
           k == tasks[q].myid
<1>1. /\ s \in Nat /\ s > 0 /\ l \in Nat /\ l > 0 /\ t \in Nat /\ t > 0 /\ k \in Nat /\ k > 0
      /\ tasks[p] = TaskAt(s, l) /\ tasks[q] = TaskAt(t, k) /\ ProbOK
  BY ProblemOK, TaskType1 DEF GenInv, ProbOK
<1>2. p # q /\ Precedes(tasks[p], tasks[q])
  BY DEF GenInv, OrderInv, Generated
<1>3. l + 3 * s <= k + 3 * t /\ (s = t => l < k)
  BY <1>1, <1>2 DEF Precedes, Moment, shift
<1>4. Trails(p, q) <=> s <= t /\ l <= k + 2 * (t - s)
  BY <1>2 DEF Trails
<1>5. Conflict(TaskAt(s, l), TaskAt(t, k)) \/ Conflict(TaskAt(t, k), TaskAt(s, l))
  BY <1>1
<1> HIDE DEF s, l, t, k
<1>6. CASE s = t
  BY <1>1, <1>3, <1>4, <1>6
<1>7. CASE s < t
  <2>1. PICK d \in Nat : d > 0 /\ t = s + d
    <3>1. t - s \in Nat /\ t - s > 0 /\ t = s + (t - s)
      BY <1>1, <1>7
    <3>2. QED
      BY <3>1
  <2>2. l <= k + 2 * d
    BY <1>1, <1>5, <2>1, ConflictsTrail
  <2>3. QED
    BY <1>1, <1>4, <2>1, <2>2
<1>8. CASE s > t
  <2>1. PICK d \in Nat : d > 0 /\ s = t + d
    <3>1. s - t \in Nat /\ s - t > 0 /\ s = t + (s - t)
      BY <1>1, <1>8
    <3>2. QED
      BY <3>1
  <2>2. k <= l + 2 * d
    BY <1>1, <1>5, <2>1, ConflictsTrail
  <2>3. QED
    BY <1>1, <1>3, <2>1, <2>2
<1>9. QED
  BY <1>1, <1>6, <1>7, <1>8

(* A reflector is the one that was made last in its place, in the order in *)
(* which the tasks were generated.                                         *)
ReflectorInv ==
  /\ DOMAIN v = {0, 1} \X (1..N)
  /\ \A y \in done : \A z \in Makes(tasks[y]) :
       v[z] = Made(tasks[y]) \/ \E w \in done : w > y /\ z \in Makes(tasks[w])

IInv == GenInv /\ RunInv /\ ReflectorInv

LEMMA RunInit == Init => RunInv /\ ReflectorInv
BY DEF Init, RunInv, ReflectorInv, Begun, Generated

TrailsForward == \A p, q \in Generated : Trails(p, q) => p < q

LEMMA AllTrailForward == GenInv => TrailsForward
BY TrailsPrecedes DEF TrailsForward

LEMMA SameTasks ==
  ASSUME N' = N, KD' = KD
  PROVE  /\ \A x : Makes(x)' = Makes(x) /\ Uses(x)' = Uses(x) /\ Made(x)' = Made(x)
         /\ \A x, y : Conflict(x, y)' <=> Conflict(x, y)
BY DEF Makes, Uses, Made, Conflict, Elements, Slots, Columns, Below, Lower

LEMMA GenerateRun == ASSUME IInv, Generate PROVE RunInv' /\ ReflectorInv'
<1>1. /\ N' = N /\ KD' = KD /\ Len(tasks') = Len(tasks) + 1 /\ Len(tasks) \in Nat
      /\ \A q \in Generated : tasks'[q] = tasks[q]
  BY GenerateFacts DEF IInv
<1>2. GenInv' => TrailsForward'
  BY AllTrailForward, PTL
<1>3. TrailsForward'
  BY <1>2, GenerateKeeps DEF IInv
<1>4. Thread' = Thread /\ done' = done /\ on' = on /\ v' = v /\ prob' = prob
  BY DEF Generate, Thread
<1>5. Generated' = Generated \cup {Len(tasks) + 1} /\ \A q \in Generated : q < Len(tasks) + 1
  BY <1>1 DEF Generated
<1>6. done \subseteq Generated /\ on \in [Thread -> 0..Len(tasks)]
  BY DEF IInv, RunInv
<1>7. ASSUME NEW q \in Generated', Begun(q)', NEW p \in Generated', Trails(p, q)'
      PROVE  p \in done
  <2>1. q \in Generated /\ Begun(q)
    <3>1. Begun(q)
      BY <1>4, <1>7 DEF Begun
    <3>2. q # Len(tasks) + 1
      BY <1>1, <1>5, <1>6, <3>1 DEF Begun
    <3>3. QED
      BY <1>5, <1>7, <3>1, <3>2
  <2>2. p < q
    BY <1>3, <1>7 DEF TrailsForward
  <2>3. p \in Generated
    BY <1>1, <1>5, <1>7, <2>1, <2>2 DEF Generated
  <2>4. Trails(p, q)
    BY <1>1, <1>7, <2>1, <2>3 DEF Trails
  <2>5. QED
    BY <2>1, <2>3, <2>4 DEF IInv, RunInv
<1>8. RunInv'
  <2>1. on' \in [Thread' -> 0..Len(tasks')]
    BY <1>1, <1>4, <1>6
  <2>2. QED
    BY <1>4, <1>5, <1>6, <1>7, <2>1 DEF IInv, RunInv
<1>9. ReflectorInv'
  BY <1>1, <1>4, <1>6, SameTasks DEF IInv, ReflectorInv
<1>10. QED
  BY <1>8, <1>9

LEMMA StartRun == ASSUME IInv, NEW t \in Thread, Start(t) PROVE RunInv' /\ ReflectorInv'
<1>1. PICK q \in Generated :
        /\ q \notin done /\ \A u \in Thread : on[u] # q
        /\ Startable(q) /\ on' = [on EXCEPT ![t] = q]
  BY DEF Start, Generated
<1>2. /\ on[t] = 0 /\ Thread' = Thread /\ UNCHANGED <<prob, tasks, done, v>>
      /\ Generated' = Generated /\ N' = N /\ KD' = KD
  BY DEF Start, Thread, Generated, N, KD
<1>3. done \subseteq Generated /\ on \in [Thread -> 0..Len(tasks)] /\ q \in 0..Len(tasks)
  BY DEF IInv, RunInv, Generated
<1>4. on' \in [Thread -> 0..Len(tasks)] /\ on'[t] = q
      /\ \A u \in Thread : u # t => on'[u] = on[u]
  BY <1>1, <1>3
<1>5. \A u \in Thread : on'[u] # 0 =>
        on'[u] \notin done /\ \A w \in Thread : on'[w] = on'[u] => w = u
  BY <1>1, <1>4 DEF IInv, RunInv
<1>6. ASSUME NEW r \in Generated, Begun(r)', NEW p \in Generated, Trails(p, r)'
      PROVE  p \in done
  <2>1. Begun(r) \/ r = q
    BY <1>2, <1>4, <1>6 DEF Begun
  <2>2. Trails(p, r)
    BY <1>2, <1>6 DEF Trails
  <2>3. CASE Begun(r)
    BY <2>2, <2>3 DEF IInv, RunInv
  <2>4. CASE r = q
    BY <1>1, <2>2, <2>4, TrailsDone DEF IInv
  <2>5. QED
    BY <2>1, <2>3, <2>4
<1>7. RunInv'
  BY <1>2, <1>3, <1>4, <1>5, <1>6 DEF RunInv
<1>8. ReflectorInv'
  BY <1>2, SameTasks DEF IInv, ReflectorInv
<1>9. QED
  BY <1>7, <1>8

(* A task that is still executed has no one behind it that it conflicts    *)
(* with and that has been taken up.                                        *)
LEMMA NobodyOvertakes ==
  ASSUME GenInv, RunInv, NEW q \in Generated, q \notin done, NEW y \in Generated, Begun(y),
         Conflict(tasks[q], tasks[y]) \/ Conflict(tasks[y], tasks[q])
  PROVE  y <= q
<1>1. q \in Int /\ y \in Int
  BY DEF Generated
<1>2. SUFFICES ASSUME q < y PROVE FALSE
  BY <1>1
<1>3. Trails(q, y)
  BY <1>2, ConflictTrails
<1>4. QED
  BY <1>3 DEF RunInv

LEMMA FinishRun == ASSUME IInv, NEW t \in Thread, Finish(t) PROVE RunInv' /\ ReflectorInv'
<1> DEFINE q == on[t]
<1>1. /\ q # 0 /\ Thread' = Thread /\ UNCHANGED <<prob, tasks>> /\ done' = done \cup {q}
      /\ Generated' = Generated /\ N' = N /\ KD' = KD /\ on' = [on EXCEPT ![t] = 0]
      /\ v' = [s \in DOMAIN v |-> IF s \in Makes(tasks[q]) THEN Made(tasks[q]) ELSE v[s]]
  BY DEF Finish, Thread, Generated, N, KD
<1>2. done \subseteq Generated /\ on \in [Thread -> 0..Len(tasks)] /\ q \in Generated /\ q \notin done
  <2>1. done \subseteq Generated /\ on \in [Thread -> 0..Len(tasks)] /\ q \notin done
    BY <1>1 DEF IInv, RunInv
  <2>2. q \in 0..Len(tasks)
    BY <2>1
  <2>3. QED
    BY <1>1, <2>1, <2>2 DEF Generated
<1>3. on' \in [Thread -> 0..Len(tasks)] /\ on'[t] = 0 /\ \A u \in Thread : u # t => on'[u] = on[u]
  BY <1>1, <1>2
<1>4. \A u \in Thread : on'[u] # 0 =>
        on'[u] \notin done' /\ \A w \in Thread : on'[w] = on'[u] => w = u
  BY <1>1, <1>3 DEF IInv, RunInv
<1> HIDE DEF q
<1>5. ASSUME NEW r \in Generated, Begun(r)', NEW p \in Generated, Trails(p, r)'
      PROVE  p \in done'
  <2>1. Begun(r)
    BY <1>1, <1>2, <1>3, <1>5 DEF Begun, q, Generated
  <2>2. Trails(p, r)
    BY <1>1, <1>5 DEF Trails
  <2>3. QED
    BY <1>1, <2>1, <2>2 DEF IInv, RunInv
<1>6. RunInv'
  BY <1>1, <1>2, <1>3, <1>4, <1>5 DEF RunInv
<1>7. DOMAIN v' = {0, 1} \X (1..N)
  BY <1>1 DEF IInv, ReflectorInv
<1>8. ASSUME NEW y \in done', NEW z \in Makes(tasks[y])
      PROVE  v'[z] = Made(tasks[y]) \/ \E w \in done' : w > y /\ z \in Makes(tasks[w])
  <2>1. z \in DOMAIN v
    <3> DEFINE s == tasks[y].sweep
               k == tasks[y].myid
    <3>1. /\ ProbOK /\ s \in Nat /\ s > 0 /\ k \in Nat /\ k > 0 /\ tasks[y] = TaskAt(s, k)
      BY <1>1, <1>2, <1>8, ProblemOK, TaskType1 DEF IInv, GenInv, ProbOK
    <3>2. /\ z[1] = (s - 1) % 2 /\ z[2] \in Int /\ z[2] <= N /\ z = <<z[1], z[2]>>
          /\ z[2] > Column(s, k) - KD
      <4> HIDE DEF s, k
      <4>1. /\ z[1] = (s - 1) % 2 /\ z[2] \in Int /\ z[2] <= N /\ z = <<z[1], z[2]>>
            /\ z[2] > Column(s, k) - KD \/ z[2] > Column(s, k)
        BY <1>8, <3>1, MakesWithin
      <4>2. KD \in Nat /\ Column(s, k) \in Nat
        BY <3>1, ColumnType DEF ProbOK
      <4>3. QED
        BY <4>1, <4>2
    <3> HIDE DEF s, k
    <3>3. Column(s, k) >= KD + s /\ Column(s, k) \in Nat /\ KD \in Nat /\ N \in Nat
      BY <3>1, ColumnType DEF ProbOK
    <3>4. z[1] \in {0, 1} /\ z[2] \in 1..N
      BY <3>1, <3>2, <3>3
    <3>5. QED
      BY <3>2, <3>4 DEF IInv, ReflectorInv
  <2>2. CASE y = q
    BY <1>1, <1>8, <2>1, <2>2
  <2>3. CASE y \in done /\ z \notin Makes(tasks[q])
    BY <1>1, <1>8, <2>1, <2>3 DEF IInv, ReflectorInv
  <2>4. CASE y \in done /\ z \in Makes(tasks[q])
    <3>1. Conflict(tasks[q], tasks[y])
      BY <1>8, <2>4 DEF Conflict
    <3>2. y <= q /\ y # q /\ q \in Int /\ y \in Int
      BY <1>2, <2>4, <3>1, NobodyOvertakes DEF IInv, Begun, Generated
    <3>3. QED
      BY <1>1, <2>4, <3>2
  <2>5. QED
    BY <1>1, <1>8, <2>2, <2>3, <2>4
<1>9. ReflectorInv'
  <2>1. \A y \in done' : Makes(tasks[y])' = Makes(tasks[y]) /\ Made(tasks[y])' = Made(tasks[y])
    BY <1>1, SameTasks
  <2>2. DOMAIN v' = {0, 1} \X (1..N')
    BY <1>1, <1>7
  <2>3. QED
    BY <1>8, <2>1, <2>2 DEF ReflectorInv
<1>10. QED
  BY <1>6, <1>9

LEMMA InvKept == IInv /\ [Next]_vars => IInv'
<1> SUFFICES ASSUME IInv, [Next]_vars PROVE IInv'
  OBVIOUS
<1>1. CASE Generate
  BY <1>1, GenerateKeeps, GenerateRun DEF IInv
<1>2. ASSUME NEW t \in Thread, Start(t) PROVE IInv'
  BY <1>2, OthersKeepGen, StartRun DEF IInv, Start
<1>3. ASSUME NEW t \in Thread, Finish(t) PROVE IInv'
  BY <1>3, OthersKeepGen, FinishRun DEF IInv, Finish
<1>4. ASSUME EndRegion \/ UNCHANGED vars PROVE IInv'
  <2>1. UNCHANGED <<prob, next, stt, tasks, done, on, v>>
    BY <1>4 DEF EndRegion, vars
  <2>2. GenInv'
    BY <2>1, OthersKeepGen DEF IInv
  <2>3. Thread' = Thread /\ N' = N /\ KD' = KD /\ Generated' = Generated
    BY <2>1 DEF Thread, N, KD, Generated
  <2>4. RunInv'
    BY <2>1, <2>3 DEF IInv, RunInv, Begun, Trails
  <2>5. ReflectorInv'
    BY <2>1, <2>3, SameTasks DEF IInv, ReflectorInv
  <2>6. QED
    BY <2>2, <2>4, <2>5 DEF IInv
<1>5. QED
  BY <1>1, <1>2, <1>3, <1>4 DEF Next

LEMMA InvHolds == Spec => []IInv
<1>1. Init => IInv
  BY GenInit, RunInit DEF IInv
<1>2. QED
  BY <1>1, InvKept, PTL DEF Spec

(* For every order, bandwidth and team a task is executed only when all    *)
(* that it conflicts with and that the sequential loops do before it have  *)
(* been executed: three elements of work in the depend clauses stand for   *)
(* all that the kernels read and write.                                    *)
THEOREM DependClausesSuffice == Spec => []ConflictsInOrder
<1>1. IInv => ConflictsInOrder
  <2> SUFFICES ASSUME IInv, NEW t \in Thread, on[t] # 0, NEW p \in 1..(on[t] - 1),
                      Conflict(tasks[p], tasks[on[t]])
               PROVE  p \in done
    BY DEF ConflictsInOrder
  <2>1. on[t] \in 0..Len(tasks)
    BY DEF IInv, RunInv
  <2>2. on[t] \in Generated /\ p \in Generated /\ p < on[t] /\ Begun(on[t])
    BY <2>1 DEF Generated, Begun
  <2>3. Trails(p, on[t])
    BY <2>2, ConflictTrails DEF IInv
  <2>4. QED
    BY <2>2, <2>3 DEF IInv, RunInv
<1>2. QED
  BY <1>1, InvHolds, PTL

(* The task that makes the reflector which task k of a sweep applies.      *)
Maker(k) == IF k = 2 THEN 1 ELSE 2 * (Half(k) - 1)

LEMMA MakerFacts ==
  ASSUME NEW k \in Nat, k > 1
  PROVE  /\ Maker(k) \in Nat /\ Maker(k) > 0 /\ Maker(k) < k
         /\ \A l \in Nat : Maker(k) < l /\ l < k => l > 1 /\ ~Even(l)
         /\ \/ k = 2 /\ Maker(k) = 1 /\ Half(Maker(k)) = Half(k)
            \/ Maker(k) > 1 /\ Even(Maker(k)) /\ Half(k) = Half(Maker(k)) + 1
BY HalfFacts DEF Maker, Half, Even

LEMMA MakerMakes ==
  ASSUME ProbOK, NEW s \in Nat, NEW k \in Nat, k > 1, ~EndsSweep(TaskAt(s, Maker(k))),
         NEW z \in Uses(TaskAt(s, k))
  PROVE  /\ z \in Makes(TaskAt(s, Maker(k)))
         /\ Made(TaskAt(s, Maker(k))) = Reflector(s, TaskAt(s, k).st)
<1> DEFINE m == Maker(k)
           x == TaskAt(s, k)
           y == TaskAt(s, m)
           c == Column(s, k)
           b == Column(s, m)
<1>1. m \in Nat /\ m > 0 /\ (k = 2 \/ (m > 1 /\ Even(m)))
  BY MakerFacts
<1>2. c \in Nat /\ b \in Nat /\ N \in Nat /\ KD \in Nat /\ KD > 1
  BY <1>1, ColumnType DEF ProbOK
<1>3. /\ x.st = c - KD + 1 /\ x.ed = Min2(c, N) /\ x.sweep = s
      /\ y.st = b - KD + 1 /\ y.ed = Min2(b, N) /\ y.sweep = s
      /\ y.ttype = (IF m = 1 THEN 1 ELSE (m % 2) + 2)
      /\ x.ttype = (IF k = 1 THEN 1 ELSE (k % 2) + 2)
  BY TaskFields
<1>4. z \in Slots(s, Columns(x))
  <2> HIDE DEF x
  <2>1. z \in Uses(x)
    BY DEF x
  <2>2. QED
    BY <1>3, <2>1 DEF Uses
<1>5. CASE k = 2
  <2>1. m = 1 /\ c = b
    BY <1>5, MakerFacts DEF Column
  <2> HIDE DEF x, y, c, b, m
  <2>2. Columns(y) = Columns(x) /\ y.st = x.st
    BY <1>3, <2>1 DEF Columns
  <2>3. z \in Makes(y) /\ Made(y) = Reflector(s, x.st)
    BY <1>3, <1>4, <2>1, <2>2 DEF Makes, Made
  <2>4. QED
    BY <2>3 DEF x, y, m
<1>6. CASE k # 2
  <2>1. m > 1 /\ Even(m) /\ Half(k) = Half(m) + 1
    BY <1>1, <1>6, MakerFacts
  <2>2. c = b + KD
    <3> DEFINE w == KD
               j == Half(m)
    <3>1. w \in Nat /\ j \in Nat /\ Half(k) = j + 1 /\ c = (j + 1) * w + s /\ b = j * w + s
      BY <1>1, <1>2, <2>1, HalfFacts DEF Column
    <3> HIDE DEF w, j, c, b
    <3>2. (j + 1) * w = j * w + w /\ j * w \in Nat
      BY <3>1, Z3
    <3>3. c = b + w
      BY <3>1, <3>2
    <3>4. QED
      BY <3>3 DEF w
  <2>3. b < N - 1
    BY <1>1, <1>2, <2>1, EndsAt
  <2> HIDE DEF x, y, c, b, m
  <2>4. y.ed = b /\ y.ttype = 2
    BY <1>2, <1>3, <2>1, <2>3 DEF Min2, Even
  <2>5. Below(y) = Columns(x) /\ y.ed + 1 = x.st
    BY <1>2, <1>3, <2>2, <2>4 DEF Below, Columns
  <2>6. z \in Makes(y) /\ Made(y) = Reflector(s, x.st)
    BY <1>3, <1>4, <2>4, <2>5 DEF Makes, Made
  <2>7. QED
    BY <2>6 DEF x, y, m
<1>7. QED
  BY <1>5, <1>6

(* For every order, bandwidth and team each kernel finds in hous the       *)
(* reflector that its own sweep has made for its columns: the task that    *)
(* makes it has been executed, and none that uses the same place again,    *)
(* two sweeps later, before it is applied.                                 *)
THEOREM ReflectorsLast == Spec => []ReflectorsCurrent
<1>1. IInv => ReflectorsCurrent
  <2> SUFFICES ASSUME IInv, NEW t \in Thread, on[t] # 0, NEW z \in Uses(tasks[on[t]])
               PROVE  v[z] = Reflector(tasks[on[t]].sweep, tasks[on[t]].st)
    BY DEF ReflectorsCurrent
  <2> DEFINE q == on[t]
             s == tasks[q].sweep
             k == tasks[q].myid
  <2>1. q \in Generated /\ Begun(q) /\ q \notin done
    <3>1. q \in 0..Len(tasks) /\ q # 0 /\ q \notin done
      BY DEF IInv, RunInv
    <3>2. QED
      BY <3>1 DEF Begun, Generated
  <2>2. /\ s \in Nat /\ s > 0 /\ k \in Nat /\ k > 0 /\ tasks[q] = TaskAt(s, k) /\ ProbOK
    BY <2>1, ProblemOK, TaskType1 DEF IInv, GenInv, ProbOK
  <2> HIDE DEF q
  <2>3. z \in Uses(TaskAt(s, k))
    BY <2>2 DEF q
  <2>4. k > 1
    <3> HIDE DEF s, k
    <3>1. QED
      BY <2>2, <2>3, UsesWithin
  <2>5. Maker(k) \in Nat /\ Maker(k) \in 1..(k - 1)
    BY <2>2, <2>4, MakerFacts
  <2>6. Has(s, Maker(k))
    BY <2>1, <2>5 DEF IInv, GenInv, CompleteInv
  <2>7. PICK y \in Generated : tasks[y] = TaskAt(s, Maker(k))
    BY <2>6 DEF Has
  <2>8. tasks[y].sweep = s /\ tasks[y].myid = Maker(k)
    BY <2>7, TaskFields
  <2>9. ~EndsSweep(tasks[y])
    BY <2>1, <2>2, <2>5, <2>8 DEF IInv, GenInv, EndInv
  <2>10. z \in Makes(tasks[y]) /\ Made(tasks[y]) = Reflector(s, tasks[q].st)
    BY <2>2, <2>3, <2>4, <2>7, <2>9, MakerMakes
  <2>11. Trails(y, q)
    BY <2>2, <2>5, <2>8 DEF Trails
  <2>12. y \in done /\ y < q
    BY <2>1, <2>11, TrailsPrecedes DEF IInv, RunInv
  <2>13. ASSUME NEW w \in done, w > y, z \in Makes(tasks[w]) PROVE FALSE
    <3>1. w \in Generated /\ w # q /\ w \in Int /\ q \in Int /\ y \in Int
      BY <2>1 DEF IInv, RunInv, Generated
    <3>2. Conflict(tasks[y], tasks[w]) /\ Conflict(tasks[w], tasks[q])
      BY <2>2, <2>3, <2>10, <2>13 DEF Conflict
    <3>3. w < q
      BY <2>1, <3>1, <3>2, NobodyOvertakes DEF IInv, Begun
    <3>4. Trails(y, w) /\ Trails(w, q)
      BY <2>1, <2>13, <3>1, <3>2, <3>3, ConflictTrails DEF IInv
    <3>5. /\ tasks[w].sweep \in Nat /\ tasks[w].myid \in Nat /\ tasks[w].myid > 0
          /\ tasks[w] = TaskAt(tasks[w].sweep, tasks[w].myid)
      BY <2>2, <3>1, TaskType1 DEF IInv, GenInv, ProbOK
    <3>6. tasks[w].sweep = s
      BY <2>2, <2>8, <3>4, <3>5 DEF Trails
    <3>7. Precedes(tasks[y], tasks[w]) /\ Precedes(tasks[w], tasks[q])
      BY <2>1, <2>13, <3>1, <3>3 DEF IInv, GenInv, OrderInv
    <3>8. Maker(k) < tasks[w].myid /\ tasks[w].myid < k
      BY <2>2, <2>5, <2>8, <3>5, <3>6, <3>7 DEF Precedes, Moment, shift
    <3>9. tasks[w].myid > 1 /\ ~Even(tasks[w].myid)
      BY <2>2, <2>4, <3>5, <3>8, MakerFacts
    <3>10. QED
      BY <2>2, <2>13, <3>5, <3>9, MakesWithin
  <2>14. v[z] = Made(tasks[y])
    BY <2>10, <2>12, <2>13 DEF IInv, ReflectorInv
  <2>15. QED
    BY <2>10, <2>14 DEF q
<1>2. QED
  BY <1>1, InvHolds, PTL

-----------------------------------------------------------------------------
(* The matrix.                                                             *)

LEMMA HalfAfter ==
  ASSUME NEW k \in Nat, k > 0
  PROVE  /\ Even(k) => Half(k + 1) = Half(k) + 1 /\ ~Even(k + 1)
         /\ k > 2 => LET m == 2 * (Half(k) - 1) IN
              m \in 1..(k - 1) /\ Even(m) /\ Half(k) = Half(m) + 1
         /\ k <= 2 => Half(k) = 1
BY HalfFacts DEF Half, Even

LEMMA NextBlock ==
  ASSUME ProbOK, NEW s \in Nat, NEW k \in Nat, k > 0, NEW m \in Nat, m > 0, Half(k) = Half(m) + 1
  PROVE  Column(s, k) = Column(s, m) + KD
<1> DEFINE w == KD
           j == Half(m)
<1>1. w \in Nat /\ j \in Nat /\ Column(s, k) = (j + 1) * w + s /\ Column(s, m) = j * w + s
  BY HalfFacts DEF Column, ProbOK
<1> HIDE DEF w, j
<1>2. (j + 1) * w = j * w + w /\ j * w \in Nat
  BY <1>1, Z3
<1>3. Column(s, k) = Column(s, m) + w
  BY <1>1, <1>2
<1>4. QED
  BY <1>3 DEF w

LEMMA FirstBlock ==
  ASSUME ProbOK, NEW s \in Nat, NEW k \in Nat, Half(k) = 1
  PROVE  Column(s, k) = KD + s
BY DEF Column, ProbOK

(* A task begins at a column of the matrix.                                *)
LEMMA BeginsInside ==
  ASSUME GenInv, NEW q \in Generated
  PROVE  LET c == Column(tasks[q].sweep, tasks[q].myid) IN
         c \in Nat /\ c - KD + 1 \in 1..N
<1> DEFINE s == tasks[q].sweep
           k == tasks[q].myid
<1>1. /\ ProbOK /\ N \in Nat /\ KD \in Nat /\ s \in Nat /\ s > 0 /\ s <= N - 1
      /\ k \in Nat /\ k > 0
  BY ProblemOK, TaskType1 DEF GenInv, ProbOK
<1>2. Column(s, k) \in Nat /\ Column(s, k) >= KD + s
  BY <1>1, ColumnType
<1>3. CASE k <= 2
  <2>1. Column(s, k) = KD + s
    BY <1>1, <1>3, HalfAfter, FirstBlock
  <2>2. QED
    BY <1>1, <2>1
<1>4. CASE k > 2
  <2>1. PICK m \in 1..(k - 1) : Even(m) /\ Half(k) = Half(m) + 1
    BY <1>1, <1>4, HalfAfter
  <2>2. Has(s, m)
    BY <2>1 DEF GenInv, CompleteInv
  <2>3. PICK y \in Generated : tasks[y] = TaskAt(s, m)
    BY <2>2 DEF Has
  <2>4. tasks[y].sweep = s /\ tasks[y].myid = m
    BY <2>3, TaskFields
  <2>5. ~EndsSweep(TaskAt(s, m))
    BY <1>1, <2>1, <2>3, <2>4 DEF GenInv, EndInv
  <2>a. m \in Nat /\ m > 0
    BY <1>1, <2>1
  <2>b. Column(s, m) \in Nat
    BY <1>1, <2>a, ColumnType
  <2>c. ~(Column(s, m) >= N - 1)
    BY <1>1, <2>1, <2>a, <2>5, EndsAt
  <2>6. m \in Nat /\ m > 0 /\ Column(s, m) < N - 1 /\ Column(s, m) \in Nat
    BY <1>1, <2>a, <2>b, <2>c
  <2>7. Column(s, k) = Column(s, m) + KD
    BY <1>1, <2>1, <2>6, NextBlock
  <2>8. QED
    BY <1>1, <1>2, <2>6, <2>7
<1>5. QED
  BY <1>1, <1>3, <1>4

(* The elements of an even task, conversely to ElementsWithin.             *)
LEMMA ElementsOfEven ==
  ASSUME ProbOK, NEW s \in Nat, NEW k \in Nat, k > 0, Even(k), NEW r \in Int, NEW c \in Int,
         r > Column(s, k), r <= Column(s, k) + KD, r <= N,
         c > Column(s, k) - KD, c <= Column(s, k)
  PROVE  <<r, c>> \in Elements(TaskAt(s, k))
<1> DEFINE x == TaskAt(s, k)
           b == Column(s, k)
<1>1. b \in Nat /\ N \in Nat /\ KD \in Nat
  BY ColumnType DEF ProbOK
<1>2. x.ttype = (IF k = 1 THEN 1 ELSE (k % 2) + 2) /\ x.st = b - KD + 1 /\ x.ed = Min2(b, N)
  BY TaskFields
<1>3. r > b /\ r <= b + KD /\ c > b - KD /\ c <= b /\ k % 2 = 0 /\ k # 1
  BY DEF Even
<1> HIDE DEF x, b
<1>4. x.ttype = 2 /\ x.ed = b
  BY <1>1, <1>2, <1>3 DEF Min2
<1>5. r \in Below(x) /\ c \in Columns(x)
  BY <1>1, <1>2, <1>3, <1>4 DEF Below, Columns, Min2
<1>6. <<r, c>> \in Elements(x)
  BY <1>4, <1>5 DEF Elements
<1>7. QED
  BY <1>6 DEF x

(* A task annihilates a column: the first one of its block, or the one     *)
(* beside it.                                                              *)
LEMMA AnnihilatedByFirst ==
  ASSUME ProbOK, NEW s \in Nat, NEW r \in Int, r > s + 1, r <= s + KD, r <= N
  PROVE  <<r, s>> \in Annihilated(TaskAt(s, 1)) /\ <<r, s>> \in Elements(TaskAt(s, 1))
<1> DEFINE x == TaskAt(s, 1)
<1>1. N \in Nat /\ KD \in Nat /\ Column(s, 1) = KD + s
  BY HalfAfter, FirstBlock DEF ProbOK
<1>2. x.ttype = 1 /\ x.st = s + 1 /\ x.ed = Min2(KD + s, N)
  BY <1>1, TaskFields
<1> HIDE DEF x
<1>3. r \in (x.st + 1)..x.ed /\ s = x.st - 1
  BY <1>1, <1>2 DEF Min2
<1>4. <<r, s>> \in ((x.st + 1)..x.ed) \X {x.st - 1} /\ <<r, s>> \in Columns(x) \X {x.st - 1}
  BY <1>1, <1>2, <1>3 DEF Columns
<1>5. <<r, s>> \in Annihilated(x) /\ <<r, s>> \in Elements(x)
  BY <1>2, <1>4 DEF Annihilated, Elements
<1>6. QED
  BY <1>5 DEF x

LEMMA AnnihilatedByEven ==
  ASSUME ProbOK, NEW s \in Nat, NEW k \in Nat, k > 0, Even(k), NEW r \in Int,
         r > Column(s, k) + 1, r <= Column(s, k) + KD, r <= N
  PROVE  <<r, Column(s, k) - KD + 1>> \in Annihilated(TaskAt(s, k))
<1> DEFINE x == TaskAt(s, k)
           b == Column(s, k)
<1>1. b \in Nat /\ N \in Nat /\ KD \in Nat
  BY ColumnType DEF ProbOK
<1>2. x.ttype = (IF k = 1 THEN 1 ELSE (k % 2) + 2) /\ x.st = b - KD + 1 /\ x.ed = Min2(b, N)
  BY TaskFields
<1>3. r > b + 1 /\ r <= b + KD /\ k % 2 = 0 /\ k # 1
  BY DEF Even
<1> HIDE DEF x, b
<1>4. x.ttype = 2 /\ x.ed = b
  BY <1>1, <1>2, <1>3 DEF Min2
<1>5. r \in (x.ed + 2)..Min2(x.ed + KD, N)
  BY <1>1, <1>3, <1>4 DEF Min2
<1>6. <<r, x.st>> \in Annihilated(x)
  BY <1>4, <1>5 DEF Annihilated
<1>7. QED
  BY <1>2, <1>6 DEF x, b

(* What is left when a task has been executed.                             *)
LEMMA AfterWithin ==
  ASSUME ProbOK, NEW s \in Nat, NEW k \in Nat, k > 0, NEW e \in After(TaskAt(s, k))
  PROVE  /\ e \in nonzero \/ e \in Elements(TaskAt(s, k))
         /\ e \notin Annihilated(TaskAt(s, k))
<1> DEFINE x == TaskAt(s, k)
           kept == IF x.ttype = 1 /\ \E a \in Columns(x) \X {x.st - 1} : a \in nonzero
                   THEN {<<x.st, x.st - 1>>} ELSE {}
<1>1. Column(s, k) \in Nat /\ N \in Nat /\ KD \in Nat /\ KD > 1
  BY ColumnType DEF ProbOK
<1>2. /\ x.ttype = (IF k = 1 THEN 1 ELSE (k % 2) + 2)
      /\ x.st = Column(s, k) - KD + 1 /\ x.ed = Min2(Column(s, k), N)
  BY TaskFields
<1>3. x.st \in Int /\ x.ed \in Int
  BY <1>1, <1>2 DEF Min2
<1>4. x.ttype \in {1, 2, 3}
  BY <1>2
<1> HIDE DEF x
<1>5. e \in ((nonzero \cup Filled(x)) \ Annihilated(x)) \cup kept
  BY DEF After, x
<1>6. Filled(x) \subseteq Elements(x)
  <2>1. CASE x.ttype = 1
    BY <2>1 DEF Filled, Elements
  <2>2. CASE x.ttype = 2
    BY <2>2 DEF Filled
  <2>3. CASE x.ttype = 3
    BY <2>3 DEF Filled, Elements
  <2>4. QED
    BY <1>4, <2>1, <2>2, <2>3
<1>7. ASSUME e \in kept PROVE e \in Elements(x) /\ e \notin Annihilated(x)
  <2>1. /\ x.ttype = 1 /\ e = <<x.st, x.st - 1>>
        /\ \E a \in Columns(x) \X {x.st - 1} : a \in nonzero
    BY <1>7
  <2>2. x.st \in Columns(x)
    BY <1>3, <2>1 DEF Columns
  <2>3. e \in Columns(x) \X {x.st - 1} /\ e \notin ((x.st + 1)..x.ed) \X {x.st - 1}
    BY <1>3, <2>1, <2>2
  <2>4. QED
    BY <2>1, <2>3 DEF Elements, Annihilated
<1>8. QED
  BY <1>5, <1>6, <1>7 DEF x


(* The end of the region.                                                  *)
RegionInv == ended \in BOOLEAN /\ (ended => next = Finished /\ done = Generated)

(* A sweep that has begun leaves its column with one element below the     *)
(* diagonal, but for a bulge.                                              *)
ClearInv ==
  \A y \in done : tasks[y].myid = 1 =>
    \A e \in nonzero : e[2] = tasks[y].sweep => e[1] <= e[2] + 1 \/ e[1] > e[2] + KD

(* An element outside of the band is left by an even task, right of the    *)
(* column that it annihilates, and the next sweep has not been there.      *)
BulgeInv ==
  \A e \in nonzero : e[1] > e[2] + KD =>
    \E y \in done :
      /\ Even(tasks[y].myid) /\ e \in Elements(tasks[y]) /\ e[2] > tasks[y].st
      /\ \A w \in done :
           ~(tasks[w].myid = tasks[y].myid /\ tasks[w].sweep = tasks[y].sweep + 1)

MatrixInv == nonzero \subseteq Band(2 * KD) /\ RegionInv /\ ClearInv /\ BulgeInv

LEMMA InBand ==
  ASSUME ProbOK, NEW w \in Nat
  PROVE  \A e : e \in Band(w) <=>
           /\ e = <<e[1], e[2]>> /\ e[1] \in 1..N /\ e[2] \in 1..N
           /\ e[1] >= e[2] /\ e[1] - e[2] <= w
BY DEF Band, Lower

LEMMA MatrixInit == Init => MatrixInv
<1> SUFFICES ASSUME Init PROVE MatrixInv
  OBVIOUS
<1>1. ProbOK /\ N \in Nat /\ KD \in Nat /\ 2 * KD \in Nat
  BY ProblemOK DEF Init, ProbOK
<1>2. nonzero = Band(KD) /\ done = {} /\ ended = FALSE
  BY DEF Init
<1>3. ASSUME NEW e \in nonzero PROVE e \in Band(2 * KD) /\ ~(e[1] > e[2] + KD)
  <2>1. /\ e = <<e[1], e[2]>> /\ e[1] \in 1..N /\ e[2] \in 1..N
        /\ e[1] >= e[2] /\ e[1] - e[2] <= KD
    BY <1>1, <1>2, InBand
  <2>2. e[1] - e[2] <= 2 * KD /\ ~(e[1] > e[2] + KD)
    BY <1>1, <2>1
  <2>3. QED
    BY <1>1, <2>1, <2>2, InBand
<1>4. QED
  BY <1>2, <1>3 DEF MatrixInv, RegionInv, ClearInv, BulgeInv

(* The elements of a task lie in the band that work has room for.          *)
LEMMA ElementsInBand ==
  ASSUME GenInv, NEW q \in Generated, NEW e \in Elements(tasks[q])
  PROVE  e \in Band(2 * KD)
<1> DEFINE s == tasks[q].sweep
           k == tasks[q].myid
           c == Column(s, k)
<1>1. /\ ProbOK /\ N \in Nat /\ KD \in Nat /\ KD > 1 /\ s \in Nat /\ s > 0
      /\ k \in Nat /\ k > 0 /\ tasks[q] = TaskAt(s, k)
  BY ProblemOK, TaskType1 DEF GenInv, ProbOK
<1>2. c \in Nat /\ c >= KD + s /\ c - KD + 1 \in 1..N
  BY <1>1, BeginsInside, ColumnType
<1> HIDE DEF s, k
<1>3. /\ e[1] \in Int /\ e[2] \in Int /\ e = <<e[1], e[2]>>
      /\ e[2] <= e[1] /\ e[1] <= N
      /\ e[2] > c - KD \/ (k = 1 /\ e[2] = c - KD)
      /\ Even(k) => e[1] > c /\ e[1] <= c + KD
      /\ ~Even(k) => e[1] <= c
  BY <1>1, ElementsWithin
<1>4. k = 1 => ~Even(k)
  BY DEF Even
<1> HIDE DEF c
<1>5. e[1] \in 1..N /\ e[2] \in 1..N /\ e[1] - e[2] <= 2 * KD /\ 2 * KD \in Nat
  BY <1>1, <1>2, <1>3, <1>4
<1>6. QED
  BY <1>1, <1>3, <1>5, InBand

LEMMA FinishFacts ==
  ASSUME IInv, NEW t \in Thread, Finish(t)
  PROVE  /\ on[t] \in Generated /\ on[t] \notin done /\ done \subseteq Generated
         /\ done' = done \cup {on[t]} /\ UNCHANGED <<prob, next, stt, tasks, ended>>
         /\ N' = N /\ KD' = KD /\ Generated' = Generated
         /\ \A e \in nonzero' : /\ e \in nonzero \/ e \in Elements(tasks[on[t]])
                                /\ e \notin Annihilated(tasks[on[t]])
<1> DEFINE q == on[t]
<1>1. /\ q # 0 /\ UNCHANGED <<prob, next, stt, tasks, ended>> /\ done' = done \cup {q}
      /\ N' = N /\ KD' = KD /\ Generated' = Generated /\ nonzero' = After(tasks[q])
  BY DEF Finish, N, KD, Generated
<1>2. on \in [Thread -> 0..Len(tasks)] /\ q \notin done /\ done \subseteq Generated
  BY <1>1 DEF IInv, RunInv
<1>3. q \in Generated
  <2>1. q \in 0..Len(tasks)
    BY <1>2
  <2>2. QED
    BY <1>1, <2>1 DEF Generated
<1> HIDE DEF q
<1>4. /\ ProbOK /\ tasks[q].sweep \in Nat /\ tasks[q].myid \in Nat /\ tasks[q].myid > 0
      /\ tasks[q] = TaskAt(tasks[q].sweep, tasks[q].myid)
  BY <1>3, ProblemOK, TaskType1 DEF IInv, GenInv, ProbOK
<1>5. ASSUME NEW e \in nonzero'
      PROVE  (e \in nonzero \/ e \in Elements(tasks[q])) /\ e \notin Annihilated(tasks[q])
  BY <1>1, <1>4, AfterWithin
<1>6. QED
  BY <1>1, <1>2, <1>3, <1>5 DEF q

(* Another task does not fill a column again that a sweep has cleared.     *)
LEMMA FinishClear ==
  ASSUME IInv, MatrixInv, NEW t \in Thread, Finish(t), nonzero' \subseteq Band(2 * KD),
         NEW y \in done', tasks[y].myid = 1, NEW e \in nonzero', e[2] = tasks[y].sweep
  PROVE  e[1] <= e[2] + 1 \/ e[1] > e[2] + KD
<1> DEFINE q == on[t]
           s == tasks[q].sweep
           k == tasks[q].myid
           c == tasks[y].sweep
<1>1. /\ q \in Generated /\ q \notin done /\ done \subseteq Generated /\ done' = done \cup {q}
      /\ e \in nonzero \/ e \in Elements(tasks[q])
      /\ e \notin Annihilated(tasks[q])
  BY FinishFacts
<1>2. /\ ProbOK /\ N \in Nat /\ KD \in Nat /\ KD > 1 /\ 2 * KD \in Nat /\ y \in Generated
      /\ s \in Nat /\ k \in Nat /\ k > 0 /\ tasks[q] = TaskAt(s, k)
      /\ c \in Nat /\ tasks[y] = TaskAt(c, 1)
  <2>1. ProbOK /\ N \in Nat /\ KD \in Nat /\ KD > 1 /\ 2 * KD \in Nat
    BY ProblemOK DEF IInv, GenInv, ProbOK
  <2>2. y \in Generated /\ GenInv
    BY <1>1 DEF IInv
  <2>3. s \in 1..(N - 1) /\ k \in Nat /\ k > 0 /\ tasks[q] = TaskAt(s, k)
    BY <1>1, <2>2, TaskType1
  <2>4. c \in 1..(N - 1) /\ tasks[y] = TaskAt(c, 1)
    BY <2>2, TaskType1
  <2>5. s \in Nat /\ c \in Nat
    BY <2>1, <2>3, <2>4
  <2>6. QED
    BY <2>1, <2>2, <2>3, <2>4, <2>5
<1> HIDE DEF q, s, k, c
<1>3. e = <<e[1], e[2]>> /\ e[1] \in 1..N /\ e[2] \in 1..N /\ e[2] = c
  BY <1>2, InBand DEF c
<1> SUFFICES ASSUME e[1] > c + 1, e[1] <= c + KD PROVE FALSE
  BY <1>2, <1>3
<1>4. e \in Annihilated(tasks[y]) /\ e \in Elements(tasks[y])
  <2>1. e[1] \in Int /\ e[1] <= N
    BY <1>2, <1>3
  <2>2. <<e[1], c>> \in Annihilated(TaskAt(c, 1)) /\ <<e[1], c>> \in Elements(TaskAt(c, 1))
    BY <1>2, <2>1, AnnihilatedByFirst
  <2>3. QED
    BY <1>2, <1>3, <2>2
<1>5. y # q /\ y \in done
  BY <1>1, <1>4
<1>6. CASE e \in nonzero
  <2>1. e[1] <= e[2] + 1 \/ e[1] > e[2] + KD
    BY <1>3, <1>5, <1>6 DEF MatrixInv, ClearInv, c
  <2>2. QED
    BY <1>2, <1>3, <2>1
<1>7. CASE e \in Elements(tasks[q])
  <2>1. Conflict(tasks[q], tasks[y])
    BY <1>4, <1>7 DEF Conflict
  <2>2. y <= q /\ y \in Int /\ q \in Int
    BY <1>1, <1>2, <1>5, <2>1, NobodyOvertakes DEF IInv, Begun, Generated
  <2>3. y < q
    BY <1>5, <2>2
  <2>4. Trails(y, q) /\ Precedes(tasks[y], tasks[q])
    BY <1>1, <1>2, <2>1, <2>3, ConflictTrails DEF IInv, GenInv, OrderInv
  <2>5. c <= s
    BY <2>4 DEF Trails, c, s
  <2>6. e[2] > Column(s, k) - KD \/ (k = 1 /\ e[2] = Column(s, k) - KD)
    BY <1>2, <1>7, ElementsWithin
  <2>7. Column(s, k) \in Nat /\ Column(s, k) >= KD + s
    BY <1>2, ColumnType
  <2>8. k = 1 /\ s = c
    BY <1>2, <1>3, <2>5, <2>6, <2>7
  <2>9. QED
    BY <1>2, <2>4, <2>8 DEF Precedes, Moment, shift, s, k, c
<1>8. QED
  BY <1>1, <1>6, <1>7

(* A bulge outside of the band is new, or waits for the sweep behind.      *)
LEMMA FinishBulge ==
  ASSUME IInv, MatrixInv, NEW t \in Thread, Finish(t), nonzero' \subseteq Band(2 * KD),
         NEW e \in nonzero', e[1] > e[2] + KD
  PROVE  \E y \in done' :
           /\ Even(tasks[y].myid) /\ e \in Elements(tasks[y]) /\ e[2] > tasks[y].st
           /\ \A w \in done' :
                ~(tasks[w].myid = tasks[y].myid /\ tasks[w].sweep = tasks[y].sweep + 1)
<1> DEFINE q == on[t]
           s == tasks[q].sweep
           k == tasks[q].myid
<1>1. /\ q \in Generated /\ q \notin done /\ done \subseteq Generated /\ done' = done \cup {q}
      /\ e \in nonzero \/ e \in Elements(tasks[q])
      /\ e \notin Annihilated(tasks[q])
  BY FinishFacts
<1>2. /\ ProbOK /\ N \in Nat /\ KD \in Nat /\ KD > 1 /\ 2 * KD \in Nat
      /\ s \in Nat /\ k \in Nat /\ k > 0 /\ tasks[q] = TaskAt(s, k)
  BY <1>1, ProblemOK, TaskType1 DEF IInv, GenInv, ProbOK
<1> HIDE DEF q, s, k
<1>3. tasks[q].st = Column(s, k) - KD + 1 /\ Column(s, k) \in Nat
  <2>1. TaskAt(s, k).st = Column(s, k) - KD + 1
    BY TaskFields
  <2>2. Column(s, k) \in Nat
    BY <1>2, ColumnType
  <2>3. QED
    BY <1>2, <2>1, <2>2
<1>4. e = <<e[1], e[2]>> /\ e[1] \in 1..N /\ e[2] \in 1..N
  BY <1>2, InBand
<1>5. CASE e \in Elements(tasks[q])
  <2>1. /\ e[2] > Column(s, k) - KD \/ (k = 1 /\ e[2] = Column(s, k) - KD)
        /\ Even(k) => e[1] > Column(s, k) /\ e[1] <= Column(s, k) + KD
        /\ ~Even(k) => e[1] <= Column(s, k)
    BY <1>2, <1>5, ElementsWithin
  <2>2. Even(k)
    <3>1. SUFFICES ASSUME ~Even(k) PROVE FALSE
      OBVIOUS
    <3>2. QED
      BY <1>2, <1>3, <1>4, <2>1, <3>1
  <2>3. e[2] > tasks[q].st
    <3>1. SUFFICES ASSUME ~(e[2] > tasks[q].st) PROVE FALSE
      OBVIOUS
    <3>2. k # 1
      BY <2>2 DEF Even
    <3>3. e[2] = Column(s, k) - KD + 1 /\ e[1] > Column(s, k) + 1
          /\ e[1] <= Column(s, k) + KD /\ e[1] \in Int /\ e[1] <= N
      BY <1>2, <1>3, <1>4, <2>1, <2>2, <3>1, <3>2
    <3>4. <<e[1], Column(s, k) - KD + 1>> \in Annihilated(TaskAt(s, k))
      BY <1>2, <2>2, <3>3, AnnihilatedByEven
    <3>5. QED
      BY <1>1, <1>2, <1>4, <3>3, <3>4
  <2>4. ASSUME NEW w \in done', tasks[w].myid = k, tasks[w].sweep = s + 1 PROVE FALSE
    <3>1. w # q
      BY <1>2, <2>4 DEF s
    <3>2. w \in done /\ w \in Generated /\ Begun(w)
      BY <1>1, <2>4, <3>1 DEF Begun
    <3>3. Trails(q, w)
      BY <1>2, <2>4, <3>1 DEF Trails, s, k
    <3>4. QED
      BY <1>1, <3>2, <3>3 DEF IInv, RunInv
  <2>5. QED
    BY <1>1, <1>5, <2>2, <2>3, <2>4 DEF s, k
<1>6. CASE e \in nonzero /\ e \notin Elements(tasks[q])
  <2>1. PICK y \in done :
          /\ Even(tasks[y].myid) /\ e \in Elements(tasks[y]) /\ e[2] > tasks[y].st
          /\ \A w \in done :
               ~(tasks[w].myid = tasks[y].myid /\ tasks[w].sweep = tasks[y].sweep + 1)
    BY <1>6 DEF MatrixInv, BulgeInv
  <2> DEFINE u == tasks[y].sweep
  <2>2. u \in Nat /\ tasks[y].myid \in Nat /\ tasks[y].myid > 0 /\ tasks[y] = TaskAt(u, tasks[y].myid)
    BY <1>1, <1>2, TaskType1 DEF IInv, GenInv, ProbOK
  <2> HIDE DEF u
  <2>3. ASSUME tasks[y].myid = k, s = u + 1 PROVE FALSE
    <3>1. Column(u, k) \in Nat /\ Column(s, k) = Column(u, k) + 1
      <4>1. Half(k) * KD \in Nat
        BY <1>2, HalfFacts, Product
      <4>2. Column(u, k) = Half(k) * KD + u /\ Column(s, k) = Half(k) * KD + s
        BY DEF Column
      <4>3. QED
        BY <2>2, <2>3, <4>1, <4>2
    <3>2. tasks[y] = TaskAt(u, k) /\ tasks[y].st = Column(u, k) - KD + 1
      BY <2>2, <2>3, TaskFields
    <3>3. e[2] <= Column(u, k) /\ e[1] <= N /\ e[1] <= Column(u, k) + KD
      BY <1>2, <2>1, <2>2, <2>3, <3>2, ElementsWithin
    <3>4. /\ e[1] \in Int /\ e[2] \in Int /\ Even(k)
          /\ e[1] > Column(s, k) /\ e[1] <= Column(s, k) + KD
          /\ e[2] > Column(s, k) - KD /\ e[2] <= Column(s, k)
      BY <1>2, <1>3, <1>4, <2>1, <2>3, <3>1, <3>2, <3>3
    <3>5. <<e[1], e[2]>> \in Elements(TaskAt(s, k))
      BY <1>2, <3>3, <3>4, ElementsOfEven
    <3>6. QED
      BY <1>2, <1>4, <1>6, <3>5
  <2>4. \A w \in done' : ~(tasks[w].myid = tasks[y].myid /\ tasks[w].sweep = tasks[y].sweep + 1)
    BY <1>1, <2>1, <2>3 DEF u, s, k
  <2>5. y \in done'
    BY <1>1
  <2>6. QED
    BY <2>1, <2>4, <2>5
<1>7. QED
  BY <1>1, <1>5, <1>6

LEMMA SameElements ==
  ASSUME N' = N, KD' = KD
  PROVE  Band(2 * KD)' = Band(2 * KD) /\ \A x : Elements(x)' = Elements(x)
BY DEF Band, Elements, Columns, Below, Lower

LEMMA MatrixKept == ASSUME IInv, MatrixInv, [Next]_vars PROVE MatrixInv'
<1>1. CASE Generate
  <2>1. /\ N' = N /\ KD' = KD /\ \A q \in Generated : tasks'[q] = tasks[q]
        /\ UNCHANGED <<done, ended, nonzero>> /\ next # Finished
    BY <1>1, GenerateFacts DEF IInv, Generate
  <2>2. done \subseteq Generated /\ \A q \in done : tasks'[q] = tasks[q]
    BY <2>1 DEF IInv, RunInv
  <2>3. RegionInv'
    BY <2>1 DEF MatrixInv, RegionInv
  <2>4. ClearInv'
    BY <2>1, <2>2 DEF MatrixInv, ClearInv
  <2>5. BulgeInv'
    <3>1. ASSUME NEW e \in nonzero, e[1] > e[2] + KD
          PROVE  \E y \in done :
                   /\ Even(tasks'[y].myid) /\ e \in Elements(tasks'[y]) /\ e[2] > tasks'[y].st
                   /\ \A w \in done :
                        ~(tasks'[w].myid = tasks'[y].myid /\ tasks'[w].sweep = tasks'[y].sweep + 1)
      <4>1. PICK y \in done :
              /\ Even(tasks[y].myid) /\ e \in Elements(tasks[y]) /\ e[2] > tasks[y].st
              /\ \A w \in done :
                   ~(tasks[w].myid = tasks[y].myid /\ tasks[w].sweep = tasks[y].sweep + 1)
        BY <3>1 DEF MatrixInv, BulgeInv
      <4>2. QED
        BY <2>2, <4>1
    <3>2. QED
      BY <2>1, <3>1, SameElements DEF BulgeInv, Even
  <2>6. QED
    BY <2>1, <2>3, <2>4, <2>5, SameElements DEF MatrixInv
<1>2. ASSUME NEW t \in Thread, Finish(t) PROVE MatrixInv'
  <2>1. /\ on[t] \in Generated /\ on[t] \notin done /\ done \subseteq Generated
        /\ done' = done \cup {on[t]} /\ UNCHANGED <<prob, next, stt, tasks, ended>>
        /\ N' = N /\ KD' = KD /\ Generated' = Generated
        /\ \A e \in nonzero' : e \in nonzero \/ e \in Elements(tasks[on[t]])
    BY <1>2, FinishFacts
  <2>2. nonzero' \subseteq Band(2 * KD)
    BY <2>1, ElementsInBand DEF MatrixInv, IInv
  <2>3. RegionInv'
    BY <2>1 DEF MatrixInv, RegionInv
  <2>4. ClearInv'
    BY <1>2, <2>1, <2>2, FinishClear DEF ClearInv
  <2>5. BulgeInv'
    BY <1>2, <2>1, <2>2, FinishBulge, SameElements DEF BulgeInv, Even
  <2>6. QED
    BY <2>1, <2>2, <2>3, <2>4, <2>5, SameElements DEF MatrixInv
<1>3. ASSUME \/ \E t \in Thread : Start(t)
             \/ EndRegion \/ UNCHANGED vars
      PROVE  MatrixInv'
  <2>1. UNCHANGED <<prob, next, tasks, done, nonzero>>
    BY <1>3 DEF Start, EndRegion, vars
  <2>2. N' = N /\ KD' = KD /\ Generated' = Generated
    BY <2>1 DEF N, KD, Generated
  <2>3. RegionInv'
    <3>1. CASE EndRegion
      BY <2>1, <3>1 DEF EndRegion, RegionInv, Generated
    <3>2. CASE ended' = ended
      BY <2>1, <2>2, <3>2 DEF MatrixInv, RegionInv
    <3>3. QED
      BY <1>3, <3>1, <3>2 DEF Start, vars
  <2>4. ClearInv'
    BY <2>1, <2>2 DEF MatrixInv, ClearInv
  <2>5. BulgeInv'
    BY <2>1, <2>2, SameElements DEF MatrixInv, BulgeInv
  <2>6. QED
    BY <2>1, <2>2, <2>3, <2>4, <2>5, SameElements DEF MatrixInv
<1>4. QED
  BY <1>1, <1>2, <1>3 DEF Next

LEMMA MatrixHolds == Spec => [](IInv /\ MatrixInv)
<1>1. Init => IInv /\ MatrixInv
  BY GenInit, RunInit, MatrixInit DEF IInv
<1>2. IInv /\ MatrixInv /\ [Next]_vars => IInv' /\ MatrixInv'
  BY InvKept, MatrixKept
<1>3. QED
  BY <1>1, <1>2, PTL DEF Spec

(* The loops do not end before all sweeps have.                            *)
LEMMA AllSweepsEnd == ASSUME GenInv, next = Finished PROVE stt = N
<1>1. ProbOK /\ N \in Nat /\ KD \in Nat /\ KD > 1 /\ stt \in 1..N
  BY ProblemOK DEF GenInv, LoopsInv, ProbOK
<1>2. SUFFICES ASSUME stt <= N - 1 PROVE FALSE
  BY <1>1
<1> DEFINE j == N - 1 - stt
           k == IF j = 0 THEN 1 ELSE 2 * j
<1>3. j \in Nat /\ k \in Nat /\ k > 0 /\ stt \in Nat /\ stt \in stt..(N - 1)
      /\ Moment(stt, k) <= shift * N
  BY <1>1, <1>2 DEF Moment, shift
<1>4. EndsSweep(TaskAt(stt, k))
  <2>1. CASE j = 0
    <3>1. Column(stt, 1) = KD + stt /\ ~Even(1)
      BY <1>1, <1>3, HalfAfter, FirstBlock DEF Even
    <3>2. Column(stt, 1) >= N /\ Column(stt, 1) - KD >= N - 2
      BY <1>1, <1>3, <2>1, <3>1
    <3>3. EndsSweep(TaskAt(stt, 1))
      BY <1>1, <1>3, <3>1, <3>2, EndsAt
    <3>4. QED
      BY <2>1, <3>3
  <2>2. CASE j # 0
    <3>1. k = 2 * j /\ Even(k) /\ Half(k) = j
      BY <1>3, <2>2 DEF Even, Half
    <3>2. j * KD \in Nat /\ j * KD >= 2 * j
      BY <1>1, <1>3, Multiples
    <3>3. Column(stt, k) = j * KD + stt
      BY <3>1 DEF Column
    <3>4. Column(stt, k) >= N - 1
      <4> DEFINE p == j * KD
      <4>1. p \in Nat /\ p >= 2 * (N - 1 - stt) /\ Column(stt, k) = p + stt
        BY <3>2, <3>3
      <4> HIDE DEF p, k, j
      <4>2. QED
        BY <1>1, <1>2, <1>3, <4>1
    <3> HIDE DEF k, j
    <3>5. QED
      BY <1>1, <1>3, <3>1, <3>4, EndsAt
  <2>3. QED
    BY <2>1, <2>2
<1> HIDE DEF k
<1>5. Has(stt, k)
  BY <1>3 DEF GenInv, CompleteInv, Passed
<1>6. PICK q \in Generated : tasks[q] = TaskAt(stt, k)
  BY <1>5 DEF Has
<1>7. tasks[q].sweep = stt /\ EndsSweep(tasks[q])
  BY <1>4, <1>6, TaskFields
<1>8. stt < stt
  BY <1>7 DEF GenInv, EndInv
<1>9. QED
  BY <1>1, <1>8

(* Then each sweep has its first task, and goes on from a block that does  *)
(* not reach the end of the matrix.                                        *)
LEMMA SweepsComplete ==
  ASSUME GenInv, next = Finished, NEW s \in 1..(N - 1)
  PROVE  /\ Has(s, 1)
         /\ \A k \in Nat \ {0} : Column(s, k) <= N - 2 => Has(s, k) /\ Has(s, k + 1)
<1>1. ProbOK /\ N \in Nat /\ KD \in Nat /\ s \in Nat
  BY ProblemOK DEF GenInv, ProbOK
<1>2. s \in 1..(stt - 1)
  BY AllSweepsEnd
<1>3. PICK q \in Generated : tasks[q].sweep = s /\ EndsSweep(tasks[q])
  BY <1>2 DEF GenInv, EndInv
<1> DEFINE m == tasks[q].myid
<1>4. m \in Nat /\ m > 0 /\ tasks[q] = TaskAt(s, m)
  BY <1>3, TaskType1
<1> HIDE DEF m
<1>5. ASSUME NEW l \in Nat, l > 0, l <= m PROVE Has(s, l)
  <2>1. CASE l = m
    BY <1>4, <2>1 DEF Has
  <2>2. CASE l # m
    <3>1. l \in 1..(m - 1)
      BY <1>4, <1>5, <2>2
    <3>2. QED
      BY <1>3, <3>1 DEF GenInv, CompleteInv, m
  <2>3. QED
    BY <2>1, <2>2
<1>6. ASSUME NEW k \in Nat \ {0}, Column(s, k) <= N - 2 PROVE k + 1 <= m
  <2>1. SUFFICES ASSUME m <= k PROVE FALSE
    BY <1>4
  <2>2. Column(s, m) \in Nat /\ Column(s, m) >= N - 1
    <3>1. EndsSweep(TaskAt(s, m))
      BY <1>3, <1>4
    <3>2. IF Even(m) THEN Column(s, m) >= N - 1 ELSE Column(s, m) >= N
      BY <1>1, <1>4, <3>1, EndsAt
    <3>3. Column(s, m) \in Nat
      BY <1>1, <1>4, ColumnType
    <3>4. QED
      BY <1>1, <3>2, <3>3
  <2>3. Half(k) >= Half(m) + 0 /\ Half(m) \in Nat
    BY <1>4, <2>1 DEF Half
  <2>4. Column(s, k) - s >= Column(s, m) - s + 0 * KD /\ 0 * KD = 0
    BY <1>1, <1>4, <2>3, Blocks
  <2>5. Column(s, k) \in Nat
    BY <1>1, ColumnType
  <2>6. QED
    BY <1>1, <1>6, <2>2, <2>4, <2>5
<1>7. ASSUME NEW k \in Nat \ {0}, Column(s, k) <= N - 2 PROVE Has(s, k) /\ Has(s, k + 1)
  <2>1. k + 1 <= m
    BY <1>6, <1>7
  <2>2. k \in Nat /\ k > 0 /\ k <= m /\ k + 1 \in Nat /\ k + 1 > 0
    BY <1>4, <2>1
  <2>3. QED
    BY <1>5, <2>1, <2>2
<1>8. Has(s, 1)
  BY <1>4, <1>5
<1>9. QED
  BY <1>7, <1>8

(* For every order, bandwidth and team the region ends with a tridiagonal  *)
(* matrix, each reflector having been applied from both sides: all sweeps  *)
(* have run, each has cleared its column, and a bulge that were left would *)
(* wait for a sweep that has passed there.                                 *)
THEOREM BulgesChasedOff == Spec => []Tridiagonal
<1>1. IInv /\ MatrixInv => Tridiagonal
  <2> SUFFICES ASSUME IInv, MatrixInv, ended PROVE Tridiagonal
    BY DEF Tridiagonal
  <2>1. GenInv /\ next = Finished /\ done = Generated
    BY DEF IInv, MatrixInv, RegionInv
  <2>2. ProbOK /\ N \in Nat /\ KD \in Nat /\ KD > 1 /\ 1 \in Nat /\ 2 * KD \in Nat
    BY <2>1, ProblemOK DEF GenInv, ProbOK
  <2>3. ASSUME NEW e \in nonzero PROVE e \in Band(1)
    <3>1. e = <<e[1], e[2]>> /\ e[1] \in 1..N /\ e[2] \in 1..N /\ e[1] >= e[2]
      BY <2>2, InBand DEF MatrixInv
    <3>2. SUFFICES ASSUME e[1] > e[2] + 1 PROVE FALSE
      <4>1. SUFFICES ASSUME e[1] <= e[2] + 1 PROVE e \in Band(1)
        BY <3>1
      <4>2. e[1] - e[2] <= 1
        BY <2>2, <3>1, <4>1
      <4>3. QED
        BY <2>2, <3>1, <4>2, InBand
    <3>3. e[2] \in 1..(N - 1)
      BY <2>2, <3>1, <3>2
    <3>4. PICK y \in done : tasks[y] = TaskAt(e[2], 1)
      BY <2>1, <3>3, SweepsComplete DEF Has
    <3>5. e[1] > e[2] + KD
      <4>1. tasks[y].sweep = e[2] /\ tasks[y].myid = 1
        BY <3>4, TaskFields
      <4>2. e[1] <= e[2] + 1 \/ e[1] > e[2] + KD
        BY <4>1 DEF MatrixInv, ClearInv
      <4>3. QED
        BY <2>2, <3>1, <3>2, <4>2
    <3>6. PICK z \in done :
            /\ Even(tasks[z].myid) /\ e \in Elements(tasks[z]) /\ e[2] > tasks[z].st
            /\ \A w \in done :
                 ~(tasks[w].myid = tasks[z].myid /\ tasks[w].sweep = tasks[z].sweep + 1)
      BY <3>5 DEF MatrixInv, BulgeInv
    <3> DEFINE u == tasks[z].sweep
               k == tasks[z].myid
    <3>7. /\ u \in Nat /\ u > 0 /\ k \in Nat /\ k > 0 /\ tasks[z] = TaskAt(u, k)
      BY <2>1, <2>2, TaskType1 DEF ProbOK
    <3> HIDE DEF u, k
    <3>8. TaskAt(u, k).st = Column(u, k) - KD + 1
      BY TaskFields
    <3>9. Column(u, k) \in Nat /\ Column(u, k) >= KD + u
      BY <2>2, <3>7, ColumnType
    <3>10. Column(u, k) <= N - 3
      BY <2>2, <3>1, <3>5, <3>6, <3>7, <3>8, <3>9
    <3>11. u + 1 \in 1..(N - 1) /\ u + 1 \in Nat /\ k \in Nat \ {0}
      BY <2>2, <3>7, <3>9, <3>10
    <3>12. Column(u + 1, k) = Column(u, k) + 1
      <4>1. Half(k) * KD \in Nat
        BY <2>2, <3>7, HalfFacts, Product
      <4>2. QED
        BY <3>7, <4>1 DEF Column
    <3>13. Column(u + 1, k) <= N - 2
      BY <2>2, <3>9, <3>10, <3>12
    <3>14. Has(u + 1, k)
      BY <2>1, <3>11, <3>13, SweepsComplete
    <3>15. PICK w \in done : tasks[w] = TaskAt(u + 1, k)
      BY <2>1, <3>14 DEF Has
    <3>16. tasks[w].sweep = u + 1 /\ tasks[w].myid = k
      BY <3>15, TaskFields
    <3>17. QED
      BY <3>6, <3>16 DEF u, k
  <2>4. ASSUME NEW q \in done, tasks[q].ttype = 2, Cardinality(Below(tasks[q])) > 1
        PROVE  \E p \in done :
                 tasks[p].ttype = 3 /\ Reflector(tasks[p].sweep, tasks[p].st) = Made(tasks[q])
    <3> DEFINE s == tasks[q].sweep
               k == tasks[q].myid
               c == Column(s, k)
               x == tasks[q]
    <3>1. /\ s \in 1..(N - 1) /\ s \in Nat /\ k \in Nat /\ k > 0 /\ tasks[q] = TaskAt(s, k)
      BY <2>1, <2>2, TaskType1
    <3> HIDE DEF s, k
    <3>2. c \in Nat
      BY <2>2, <3>1, ColumnType
    <3>3. /\ x.ed = Min2(c, N) /\ x.sweep = s /\ x.ttype = IF k = 1 THEN 1 ELSE (k % 2) + 2
      BY <3>1, TaskFields
    <3>4. k # 1 /\ Even(k)
      BY <2>4, <3>1, <3>3 DEF Even
    <3> HIDE DEF c, x
    <3>5. x.ed = c /\ c <= N - 2
      <4> DEFINE a == x.ed + 1
                 b == Min2(x.ed + KD, N)
      <4>1. x.ed \in Int /\ x.ed <= c /\ x.ed <= N /\ (x.ed = c \/ x.ed = N)
        BY <2>2, <3>2, <3>3 DEF Min2
      <4>2. a \in Int /\ b \in Int /\ b <= N
        BY <2>2, <4>1 DEF Min2
      <4>3. Below(x) = a..b
        BY DEF Below
      <4> HIDE DEF a, b
      <4>4. Cardinality(a..b) = IF a > b THEN 0 ELSE b - a + 1
        BY <4>2, FS_Interval
      <4>5. Cardinality(a..b) > 1
        BY <2>4, <4>3 DEF x
      <4>6. b - a + 1 > 1
        BY <4>2, <4>4, <4>5
      <4>7. x.ed + 2 <= N
        BY <2>2, <4>1, <4>2, <4>6 DEF a
      <4>8. QED
        BY <2>2, <3>2, <4>1, <4>7
    <3>6. PICK p \in done : tasks[p] = TaskAt(s, k + 1)
      <4>1. Has(s, k + 1)
        BY <2>1, <3>1, <3>5, SweepsComplete DEF c
      <4>2. QED
        BY <2>1, <4>1 DEF Has
    <3>7. k + 1 \in Nat /\ k + 1 > 0 /\ k + 1 # 1 /\ ~Even(k + 1) /\ Half(k + 1) = Half(k) + 1
      BY <3>1, <3>4, HalfAfter
    <3>8. Column(s, k + 1) = c + KD
      BY <2>2, <3>1, <3>7, NextBlock DEF c
    <3>9. /\ tasks[p].sweep = s /\ tasks[p].st = Column(s, k + 1) - KD + 1
          /\ tasks[p].ttype = ((k + 1) % 2) + 2
      BY <3>6, <3>7, TaskFields
    <3>10. tasks[p].ttype = 3
      BY <3>7, <3>9 DEF Even
    <3>11. tasks[p].st = c + 1
      BY <2>2, <3>2, <3>8, <3>9
    <3>12. Made(x) = Reflector(s, c + 1)
      BY <2>4, <3>3, <3>5 DEF Made, x
    <3>13. QED
      BY <3>9, <3>10, <3>11, <3>12 DEF x
  <2>5. QED
    BY <2>3, <2>4 DEF Tridiagonal
<1>2. QED
  BY <1>1, MatrixHolds, PTL

(* For every order, bandwidth and team the tasks have columns of the       *)
(* matrix, a thread executes one of those that have been generated, and    *)
(* the bulges stay in the 2 KD + 1 rows of the array work.                 *)
THEOREM TypeCorrect == Spec => []TypeOK
<1>1. IInv /\ MatrixInv => TypeOK
  <2> SUFFICES ASSUME IInv, MatrixInv PROVE TypeOK
    OBVIOUS
  <2>1. ASSUME NEW q \in Generated PROVE tasks[q] \in TaskType
    <3> DEFINE s == tasks[q].sweep
               k == tasks[q].myid
               c == Column(s, k)
    <3>1. /\ ProbOK /\ N \in Nat /\ N > 0 /\ KD \in Nat /\ KD > 1
          /\ s \in 1..(N - 1) /\ k \in Nat /\ k > 0 /\ tasks[q] = TaskAt(s, k)
      BY ProblemOK, TaskType1 DEF IInv, GenInv, ProbOK
    <3>2. c \in Nat /\ c - KD + 1 \in 1..N
      BY BeginsInside DEF IInv
    <3> HIDE DEF s, k, c
    <3>3. (IF k = 1 THEN 1 ELSE (k % 2) + 2) \in 1..3
      BY <3>1
    <3>4. Min2(c, N) \in 1..N /\ c - KD + 1 \in 1..(N + 1) /\ s \in 1..N
      BY <3>1, <3>2 DEF Min2
    <3>5. TaskAt(s, k) \in TaskType
      BY <3>1, <3>2, <3>3, <3>4 DEF TaskAt, TaskType, c
    <3>6. QED
      BY <3>1, <3>5
  <2>2. QED
    BY <2>1 DEF TypeOK, IInv, GenInv, RunInv, LoopsInv, MatrixInv, RegionInv, Generated
<1>2. QED
  BY <1>1, MatrixHolds, PTL
=============================================================================
